---- MODULE Spec2Model ----
(***************************************************************************)
(* Market Widget API proxy server (server/index.js): the per-key cache,    *)
(* the upstream fetchers with their fallback path, and the request         *)
(* handlers that assemble the response envelopes.                           *)
(*                                                                         *)
(* Time is counted in seconds.  A request is handled in two kinds of       *)
(* steps, as the event loop runs it: the synchronous part up to the first  *)
(* await of every fetcher (StartRequest), and the continuation after an    *)
(* upstream call settles (Settle).  The handler's continuation after its   *)
(* join runs in the same turn as the last settlement, so the envelope is   *)
(* built in the step that settles the request's last fetcher.              *)
(*                                                                         *)
(* Optional values (undefined / null in the source) are sequences of       *)
(* length at most one: << >> is absent, <<v>> is v.                        *)
(*                                                                         *)
(* The client's hook useMarketData (src/hooks/useNews.js) is modelled on   *)
(* its own, in the variable hook, with the answers of its fetches drawn    *)
(* from the envelopes and failures it distinguishes; so is the component   *)
(* NewsWidget (src/components/NewsWidget.js), in the variable widget.      *)
(***************************************************************************)
EXTENDS Integers, Sequences, FiniteSets, TLC

(* ---- bounds of the model ---- *)
MaxReq == 2
MaxFeed == 3
MaxLong == 27
MaxCloses == 3
MaxCalls == 3
MaxFetches == 3
MaxArticles == 3

(* ---- program constants ---- *)
CACHE_TTL == 30
NEWS_TTL == 43200
MACRO_TTL == 600
INFLATION_TTL == 600
GOLD_TTL == 600
HEADLINES_TTL == 600
PERFORMANCE_TTL == 3600
AXIOS_TIMEOUT == 10

VARIABLES now, env, cache, reqs, last, stamp, hook, widget

vars == <<now, env, cache, reqs, last, stamp, hook, widget>>

Keys ==
  {"metals_prices", "stock_indices", "news", "macro_news", "inflation_news",
   "gold_news", "bullish_headlines", "performance_data"}

Endpoints ==
  {"/api/prices", "/api/news", "/api/macro-news", "/api/news/inflation",
   "/api/news/gold", "/api/news/headlines", "/api/performance"}

NewsKeys == {"news", "macro_news", "inflation_news", "gold_news", "bullish_headlines"}

(* the cache keys an endpoint's handler fetches *)
KeysOf(ep) ==
  CASE ep = "/api/prices" -> {"metals_prices", "stock_indices"}
    [] ep = "/api/news" -> {"news"}
    [] ep = "/api/macro-news" -> {"macro_news"}
    [] ep = "/api/news/inflation" -> {"inflation_news"}
    [] ep = "/api/news/gold" -> {"gold_news"}
    [] ep = "/api/news/headlines" -> {"bullish_headlines"}
    [] ep = "/api/performance" -> {"performance_data"}

(* the ttl each fetcher passes to cache.set (none passed: the store's stdTTL) *)
TTLOf(k) ==
  CASE k = "metals_prices" -> CACHE_TTL
    [] k = "stock_indices" -> CACHE_TTL
    [] k = "news" -> NEWS_TTL
    [] k = "macro_news" -> MACRO_TTL
    [] k = "inflation_news" -> INFLATION_TTL
    [] k = "gold_news" -> GOLD_TTL
    [] k = "bullish_headlines" -> HEADLINES_TTL
    [] k = "performance_data" -> PERFORMANCE_TTL

(* ---- Cache Store ---- *)
(* an entry is [v |-> value, t |-> the instant it expires] *)
cacheSet(c, k, v, ttl, t) == [c EXCEPT ![k] = <<[v |-> v, t |-> t + ttl]>>]

(* get: the value unless the key was never written or its entry has expired *)
cacheGet(c, k, t) ==
  IF c[k] # << >> /\ ~(c[k][1].t < t) THEN <<c[k][1].v>> ELSE << >>

(* ---- a fetcher invocation ---- *)
(* st: pending (awaiting its upstream call), fulfilled or rejected.        *)
(* val/stale: the value returned and whether it carries stale: true.       *)
(* err: the message of the error thrown.  The other fields record what the *)
(* invocation did: hit (returned from the first cache read), calls (the    *)
(* external calls issued), issuedAt, fail (the kind of failure caught),    *)
(* fb (what the read in the catch block returned), prev / last (the value  *)
(* physically stored under the key when the invocation started / when the  *)
(* failure was caught), exp (the instant the entry stored at the start     *)
(* expires at), got (what the upstream answered: the outcomes of the       *)
(* operations a fetcher joins with Promise.all, the response a news        *)
(* fetcher processed).                                                     *)
stored(c, k) == IF c[k] # << >> THEN <<c[k][1].v>> ELSE << >>

NewFetch(c, k, t) ==
  [st |-> "pending", val |-> << >>, stale |-> FALSE, err |-> "", hit |-> FALSE,
   calls |-> 0, issuedAt |-> t, fail |-> "none", fb |-> << >>,
   prev |-> stored(c, k), last |-> << >>,
   exp |-> IF c[k] # << >> THEN <<c[k][1].t>> ELSE << >>, got |-> << >>]

(* the cached value returned without the stale marker *)
catchUntagged(c, k, t, f, kind, msg) ==
  LET staleCache == cacheGet(c, k, t) IN
  IF staleCache # << >>
    THEN [f EXCEPT !.st = "fulfilled", !.val = staleCache,
                   !.fail = kind, !.fb = staleCache, !.last = stored(c, k)]
    ELSE [f EXCEPT !.st = "rejected", !.err = msg,
                   !.fail = kind, !.last = stored(c, k)]

(* the catch block of fetchMetalsPrices and fetchStockIndices: the cached  *)
(* value spread into a new object with stale: true, else rethrow           *)
catchTagged(c, k, t, f, kind, msg) ==
  LET staleCache == cacheGet(c, k, t) IN
  IF staleCache # << >>
    THEN [f EXCEPT !.st = "fulfilled", !.val = staleCache, !.stale = TRUE,
                   !.fail = kind, !.fb = staleCache, !.last = stored(c, k)]
    ELSE [f EXCEPT !.st = "rejected", !.err = msg,
                   !.fail = kind, !.last = stored(c, k)]

(* the catch block of the five news fetchers: the cached list as it is,    *)
(* else rethrow                                                            *)
catchPlain(c, k, t, f, kind, msg) ==
  LET staleCache == cacheGet(c, k, t) IN
  IF staleCache # << >>
    THEN [f EXCEPT !.st = "fulfilled", !.val = staleCache,
                   !.fail = kind, !.fb = staleCache, !.last = stored(c, k)]
    ELSE [f EXCEPT !.st = "rejected", !.err = msg,
                   !.fail = kind, !.last = stored(c, k)]

(* the fixed text whatever the provider said *)
errorMessageFixed(out, default) == default

(* message of a failed REST call: the provider's, its default, or axios's *)
errorMessage(out, default) ==
  IF out.msg # << >> THEN out.msg[1] ELSE default

(* ---- fetchMetalsPrices ---- *)
(* up to the await of axios.get *)
fetchMetalsPricesStart(c, t, e) ==
  LET k == "metals_prices"
      cached == cacheGet(c, k, t)
      f == NewFetch(c, k, t) IN
  IF cached # << >>
    THEN [f EXCEPT !.st = "fulfilled", !.val = cached, !.hit = TRUE]
  ELSE IF ~e.METALS_API_KEY
    THEN catchTagged(c, k, t, f, "config", "METALS_API_KEY not configured")
  ELSE [f EXCEPT !.calls = 1]

(* a rate is absent or a positive rational [num, den]; the price is         *)
(* rates.USDXAU || (rates.XAU ? (1 / rates.XAU) : null)                     *)
metalPrice(usd, inverse) ==
  IF usd # << >> /\ usd[1].num # 0 THEN usd
  ELSE IF inverse # << >> /\ inverse[1].num # 0
    THEN <<[num |-> inverse[1].den, den |-> inverse[1].num]>>
  ELSE << >>

buildMetalsResult(body) ==
  [gold |-> [price |-> metalPrice(body.rates.USDXAU, body.rates.XAU),
             timestamp |-> body.timestamp],
   silver |-> [price |-> metalPrice(body.rates.USDXAG, body.rates.XAG),
               timestamp |-> body.timestamp]]

(* the ttl handed to the store in milliseconds *)
metalsStoreTtlInMillis(c, result, t) ==
  cacheSet(c, "metals_prices", result, CACHE_TTL * 1000, t)

(* what the fetcher stores after a successful call *)
metalsStore(c, result, t) == cacheSet(c, "metals_prices", result, CACHE_TTL, t)

(* the result stored only where no unexpired entry is in the way *)
fetchMetalsPricesSettleKeepsFirst(c, t, f, out) ==
  LET k == "metals_prices" IN
  IF out.kind = "ok"
    THEN LET result == buildMetalsResult(out.body[1]) IN
         [f |-> [f EXCEPT !.st = "fulfilled", !.val = <<result>>],
          c |-> IF cacheGet(c, k, t) # << >> THEN c ELSE metalsStore(c, result, t)]
    ELSE [f |-> catchTagged(c, k, t, f, out.kind,
                            errorMessage(out, "Metals API request failed")),
          c |-> c]

(* after axios.get settled with out: [f |-> the invocation, c |-> the cache] *)
fetchMetalsPricesSettle(c, t, f, out) ==
  LET k == "metals_prices" IN
  IF out.kind = "ok"
    THEN LET result == buildMetalsResult(out.body[1]) IN
         [f |-> [f EXCEPT !.st = "fulfilled", !.val = <<result>>],
          c |-> metalsStore(c, result, t)]
    ELSE [f |-> catchTagged(c, k, t, f, out.kind,
                            errorMessage(out, "Metals API request failed")),
          c |-> c]

(* ---- fetchStockIndices ---- *)
(* up to the await of the dynamic import; the two quotes follow it *)
fetchStockIndicesStart(c, t) ==
  LET k == "stock_indices"
      cached == cacheGet(c, k, t)
      f == NewFetch(c, k, t) IN
  IF cached # << >>
    THEN [f EXCEPT !.st = "fulfilled", !.val = cached, !.hit = TRUE]
    ELSE f

buildStocksResult(sp500, dow) ==
  [sp500 |-> [price |-> sp500.regularMarketPrice,
              previousClose |-> sp500.regularMarketPreviousClose,
              change |-> sp500.regularMarketChange,
              changePercent |-> sp500.regularMarketChangePercent,
              marketState |-> sp500.marketState,
              timestamp |-> sp500.regularMarketTime],
   dow |-> [price |-> dow.regularMarketPrice,
            previousClose |-> dow.regularMarketPreviousClose,
            change |-> dow.regularMarketChange,
            changePercent |-> dow.regularMarketChangePercent,
            marketState |-> dow.marketState,
            timestamp |-> dow.regularMarketTime]]

stocksStore(c, result, t) == cacheSet(c, "stock_indices", result, CACHE_TTL, t)

(* the catch block storing the value it falls back on *)
fetchStockIndicesSettleStoresFallback(c, t, f, out) ==
  LET k == "stock_indices"
      g == [f EXCEPT !.calls = IF out.imp THEN 2 ELSE 0, !.got = <<out>>] IN
  IF out.imp /\ out.sp500 # << >> /\ out.dow # << >>
    THEN LET result == buildStocksResult(out.sp500[1], out.dow[1]) IN
         [f |-> [g EXCEPT !.st = "fulfilled", !.val = <<result>>],
          c |-> stocksStore(c, result, t)]
    ELSE LET h == catchTagged(c, k, t, g, IF out.imp THEN "network" ELSE "import",
                              IF out.imp THEN "Yahoo Finance quote failed"
                                         ELSE "Cannot find package 'yahoo-finance2'") IN
         [f |-> h, c |-> IF h.fb # << >> THEN stocksStore(c, h.fb[1], t) ELSE c]

(* out: imp (the import resolved), sp500 / dow (each quote, absent when it *)
(* rejected).  Promise.all rejects as soon as one quote rejects.           *)
fetchStockIndicesSettle(c, t, f, out) ==
  LET k == "stock_indices"
      g == [f EXCEPT !.calls = IF out.imp THEN 2 ELSE 0, !.got = <<out>>] IN
  IF out.imp /\ out.sp500 # << >> /\ out.dow # << >>
    THEN LET result == buildStocksResult(out.sp500[1], out.dow[1]) IN
         [f |-> [g EXCEPT !.st = "fulfilled", !.val = <<result>>],
          c |-> stocksStore(c, result, t)]
    ELSE [f |-> catchTagged(c, k, t, g, IF out.imp THEN "network" ELSE "import",
                            IF out.imp THEN "Yahoo Finance quote failed"
                                       ELSE "Cannot find package 'yahoo-finance2'"),
          c |-> c]

(* ---- news: titles and the duplicate filter ---- *)
(* A title is a sequence of one-character strings; an article names its    *)
(* title by its index in Titles, 0 for a null title.                       *)
Rep(ch, n) == [i \in 1..n |-> ch]

BaseTitles ==
  << <<"G", "o", "l", "d", " ", "u", "p">>,
     <<"G", "O", "L", "D", " ", "U", "P", "!">>,
     <<"[", "R", "e", "m", "o", "v", "e", "d", "]">>,
     <<"S", "i", "l", "v", "e", "r", " ", "9">>,
     Rep("a", 50) \o <<"x">>,
     Rep("a", 50) \o <<"y">>,
     << >>,
     <<"-">> \o Rep("a", 50) >>

DigitChars == <<"0", "1", "2", "3", "4", "5", "6", "7", "8", "9">>

(* MaxLong further titles, no two alike: "n01", "n02", ...                 *)
NumberedTitles ==
  [n \in 1..MaxLong |-> <<"n", DigitChars[(n \div 10) + 1], DigitChars[(n % 10) + 1]>>]

Titles == BaseTitles \o NumberedTitles

UpperCase == <<"A", "B", "C", "D", "E", "F", "G", "H", "I", "J", "K", "L", "M",
               "N", "O", "P", "Q", "R", "S", "T", "U", "V", "W", "X", "Y", "Z">>
LowerCase == <<"a", "b", "c", "d", "e", "f", "g", "h", "i", "j", "k", "l", "m",
               "n", "o", "p", "q", "r", "s", "t", "u", "v", "w", "x", "y", "z">>
Digits == {"0", "1", "2", "3", "4", "5", "6", "7", "8", "9"}

(* String.prototype.toLowerCase on one character *)
toLowerCase(ch) ==
  IF \E i \in 1..26 : UpperCase[i] = ch
    THEN LowerCase[CHOOSE i \in 1..26 : UpperCase[i] = ch]
    ELSE ch

(* slice(0, n) *)
slice(s, n) == SubSeq(s, 1, IF Len(s) < n THEN Len(s) ELSE n)

(* replace(/[^a-z0-9]/g, '') *)
stripNonAlnum(s) ==
  SelectSeq(s, LAMBDA ch : (\E i \in 1..26 : LowerCase[i] = ch) \/ ch \in Digits)

(* title.toLowerCase().slice(0, 50).replace(/[^a-z0-9]/g, '') of each of   *)
(* the titles                                                              *)
TitleKeys ==
  [n \in 1..Len(Titles) |->
     LET title == Titles[n] IN
     stripNonAlnum(slice([i \in 1..Len(title) |-> toLowerCase(title[i])], 50))]

(* article.title?.toLowerCase().slice(0, 50).replace(/[^a-z0-9]/g, ''):    *)
(* absent (undefined) for a null title                                     *)
titleKey(article) ==
  IF article.title = 0 THEN << >> ELSE <<TitleKeys[article.title]>>

(* title.includes('[Removed]') *)
includesRemoved(title) ==
  LET pat == <<"[", "R", "e", "m", "o", "v", "e", "d", "]">> IN
  \E i \in 1..Len(title) :
     i + Len(pat) - 1 <= Len(title) /\ SubSeq(title, i, i + Len(pat) - 1) = pat

(* the titles with title.includes('[Removed]') *)
RemovedTitles == {n \in 1..Len(Titles) : includesRemoved(Titles[n])}

(* the filter that never records the keys it has seen *)
RECURSIVE dedupFromForgets(_, _, _)
dedupFromForgets(raw, i, seen) ==
  IF i > Len(raw) THEN << >>
  ELSE LET key == titleKey(raw[i]) IN
       IF key \in seen THEN dedupFromForgets(raw, i + 1, seen)
       ELSE <<raw[i]>> \o dedupFromForgets(raw, i + 1, seen)

(* the filter of fetchMacroNews, fetchInflationNews and fetchGoldNews:     *)
(* the articles kept, in order, with the set of keys seen                  *)
RECURSIVE dedupFrom(_, _, _)
dedupFrom(raw, i, seen) ==
  IF i > Len(raw) THEN << >>
  ELSE LET key == titleKey(raw[i]) IN
       IF key \in seen THEN dedupFrom(raw, i + 1, seen)
       ELSE <<raw[i]>> \o dedupFrom(raw, i + 1, seen \cup {key})

(* the filter of fetchBullishHeadlines: a null, empty or redacted title is *)
(* dropped as well, after the test of the key and without recording it     *)
RECURSIVE dedupHeadlinesFrom(_, _, _)
dedupHeadlinesFrom(raw, i, seen) ==
  IF i > Len(raw) THEN << >>
  ELSE LET key == titleKey(raw[i]) IN
       IF key \in seen THEN dedupHeadlinesFrom(raw, i + 1, seen)
       ELSE IF raw[i].title = 0 \/ Titles[raw[i].title] = << >>
               \/ raw[i].title \in RemovedTitles
         THEN dedupHeadlinesFrom(raw, i + 1, seen)
       ELSE <<raw[i]>> \o dedupHeadlinesFrom(raw, i + 1, seen \cup {key})

(* the projections of the .map calls *)
projectNews(a) ==
  [title |-> a.title, description |-> a.description, source |-> a.source.name,
   url |-> a.url, publishedAt |-> a.publishedAt]

projectArticle(a) ==
  [title |-> a.title, description |-> a.description, source |-> a.source.name,
   url |-> a.url, image |-> a.urlToImage, publishedAt |-> a.publishedAt]

projectHeadline(a) ==
  [title |-> a.title, source |-> a.source.name, url |-> a.url,
   publishedAt |-> a.publishedAt]

(* the response cut to ten articles before the duplicates are removed *)
macroArticlesCapFirst(raw) ==
  LET kept == dedupFrom(slice(raw, 10), 1, {}) IN
  [i \in 1..Len(kept) |-> projectArticle(kept[i])]

(* what each news fetcher makes of response.data.articles *)
newsArticles(raw) == [i \in 1..Len(raw) |-> projectNews(raw[i])]

macroArticles(raw) ==
  LET kept == dedupFrom(raw, 1, {}) IN
  slice([i \in 1..Len(kept) |-> projectArticle(kept[i])], 10)

inflationArticles(raw) ==
  LET kept == dedupFrom(raw, 1, {}) IN
  slice([i \in 1..Len(kept) |-> projectArticle(kept[i])], 10)

goldArticles(raw) ==
  LET kept == dedupFrom(raw, 1, {}) IN
  slice([i \in 1..Len(kept) |-> projectArticle(kept[i])], 10)

bullishHeadlines(raw) ==
  LET kept == dedupHeadlinesFrom(raw, 1, {}) IN
  slice([i \in 1..Len(kept) |-> projectHeadline(kept[i])], 25)

processArticles(k, raw) ==
  CASE k = "news" -> newsArticles(raw)
    [] k = "macro_news" -> macroArticles(raw)
    [] k = "inflation_news" -> inflationArticles(raw)
    [] k = "gold_news" -> goldArticles(raw)
    [] k = "bullish_headlines" -> bullishHeadlines(raw)

(* the call issued without the test of the credential *)
fetchNewsStartKeyless(k, c, t, e) ==
  LET cached == cacheGet(c, k, t)
      f == NewFetch(c, k, t) IN
  IF cached # << >>
    THEN [f EXCEPT !.st = "fulfilled", !.val = cached, !.hit = TRUE]
    ELSE [f EXCEPT !.calls = 1]

(* ---- the five news fetchers: fetchNews, fetchMacroNews,                  *)
(* fetchInflationNews, fetchGoldNews, fetchBullishHeadlines ----            *)
(* up to the await of axios.get *)
fetchNewsStart(k, c, t, e) ==
  LET cached == cacheGet(c, k, t)
      f == NewFetch(c, k, t) IN
  IF cached # << >>
    THEN [f EXCEPT !.st = "fulfilled", !.val = cached, !.hit = TRUE]
  ELSE IF ~e.NEWS_API_KEY
    THEN catchPlain(c, k, t, f, "config", "NEWS_API_KEY not configured")
  ELSE [f EXCEPT !.calls = 1]

(* the list stored without a ttl of its own: the store's default applies *)
newsStoreDefaultTtl(k, c, articles, t) == cacheSet(c, k, articles, CACHE_TTL, t)

newsStore(k, c, articles, t) == cacheSet(c, k, articles, TTLOf(k), t)

(* a transport error rethrown without the read of the cache *)
fetchNewsSettleRethrowsNetwork(k, c, t, f, out) ==
  IF out.kind = "ok"
    THEN LET articles == processArticles(k, out.body[1]) IN
         [f |-> [f EXCEPT !.st = "fulfilled", !.val = <<articles>>, !.got = <<out>>],
          c |-> newsStore(k, c, articles, t)]
  ELSE IF out.kind = "network"
    THEN [f |-> [f EXCEPT !.st = "rejected", !.err = errorMessage(out, ""),
                          !.fail = out.kind, !.last = stored(c, k)],
          c |-> c]
  ELSE [f |-> catchPlain(c, k, t, f, out.kind,
                         errorMessage(out, "NewsAPI request failed")),
        c |-> c]

(* after axios.get settled with out *)
fetchNewsSettle(k, c, t, f, out) ==
  IF out.kind = "ok"
    THEN LET articles == processArticles(k, out.body[1]) IN
         [f |-> [f EXCEPT !.st = "fulfilled", !.val = <<articles>>, !.got = <<out>>],
          c |-> newsStore(k, c, articles, t)]
    ELSE [f |-> catchPlain(c, k, t, f, out.kind,
                           errorMessage(out, "NewsAPI request failed")),
          c |-> c]

(* ---- /api/performance: the history of one symbol and the list ---- *)
(* Math.round(num / den) for den > 0: the nearest integer, a half upwards *)
round(num, den) == (2 * num + den) \div (2 * den)

(* the return cut to an integer (towards zero) in place of rounded *)
fetchHistoryTruncates(name, h) ==
  IF h.throws THEN << >>
  ELSE IF Len(h.closes) > 1
    THEN LET startPrice == h.closes[1]
             endPrice == h.closes[Len(h.closes)]
             pct == (endPrice - startPrice) * 100 IN
         <<[name |-> name,
            return |-> IF pct >= 0 THEN pct \div startPrice
                                   ELSE -((-pct) \div startPrice)]>>
  ELSE << >>

(* h: throws (yf.historical rejected) or the monthly closes, oldest first; *)
(* the result is absent (null) or the record of the symbol                 *)
fetchHistory(name, h) ==
  IF h.throws THEN << >>
  ELSE IF Len(h.closes) > 1
    THEN LET startPrice == h.closes[1]
             endPrice == h.closes[Len(h.closes)] IN
         <<[name |-> name, return |-> round((endPrice - startPrice) * 100, startPrice)]>>
  ELSE << >>

(* Array.prototype.sort((a, b) => b.return - a.return): stable, descending *)
RECURSIVE insertDesc(_, _)
insertDesc(sorted, x) ==
  IF sorted = << >> THEN <<x>>
  ELSE IF Head(sorted).return >= x.return
    THEN <<Head(sorted)>> \o insertDesc(Tail(sorted), x)
  ELSE <<x>> \o sorted

RECURSIVE sortDesc(_)
sortDesc(s) ==
  IF s = << >> THEN << >>
  ELSE insertDesc(sortDesc(SubSeq(s, 1, Len(s) - 1)), s[Len(s)])

Symbols == <<"Gold", "Silver", "S&P 500", "Dow Jones", "Real Estate", "Bonds">>

RECURSIVE nonNull(_)
nonNull(results) ==
  IF results = << >> THEN << >>
  ELSE Head(results) \o nonNull(Tail(results))

(* the fixed records pushed after the sort instead of before it *)
assetDataSortsFirst(hist) ==
  LET results == [i \in 1..Len(Symbols) |-> fetchHistory(Symbols[i], hist[i])] IN
  sortDesc(nonNull(results))
    \o <<[name |-> "CDs/Savings", return |-> 49]>>
    \o <<[name |-> "Cash (USD)", return |-> -44]>>

(* results of the six fetchHistory calls, filtered, with the two fixed     *)
(* records pushed, sorted                                                  *)
assetData(hist) ==
  LET results == [i \in 1..Len(Symbols) |-> fetchHistory(Symbols[i], hist[i])] IN
  sortDesc(nonNull(results)
           \o <<[name |-> "CDs/Savings", return |-> 49]>>
           \o <<[name |-> "Cash (USD)", return |-> -44]>>)

(* the handler without its cache check *)
performanceStartNoCache(c, t) == NewFetch(c, "performance_data", t)

(* up to the await of the dynamic import *)
performanceStart(c, t) ==
  LET k == "performance_data"
      cached == cacheGet(c, k, t)
      f == NewFetch(c, k, t) IN
  IF cached # << >>
    THEN [f EXCEPT !.st = "fulfilled", !.val = cached, !.hit = TRUE]
    ELSE f

(* a list with symbols missing is not stored *)
performanceStoreCompleteOnly(c, data, t) ==
  IF Len(data) = Len(Symbols) + 2
    THEN cacheSet(c, "performance_data", data, PERFORMANCE_TTL, t)
    ELSE c

performanceStore(c, data, t) == cacheSet(c, "performance_data", data, PERFORMANCE_TTL, t)

(* the rejection of one history rejecting the whole join *)
performanceSettleFailFast(c, t, f, out) ==
  IF out.imp /\ \A i \in 1..Len(out.hist) : ~out.hist[i].throws
    THEN LET data == assetData(out.hist) IN
         [f |-> [f EXCEPT !.st = "fulfilled", !.val = <<data>>, !.calls = 6,
                          !.got = <<out>>],
          c |-> performanceStore(c, data, t)]
    ELSE [f |-> [f EXCEPT !.st = "rejected",
                          !.fail = IF out.imp THEN "network" ELSE "import",
                          !.err = IF out.imp THEN "Yahoo Finance quote failed"
                                             ELSE "Cannot find package 'yahoo-finance2'",
                          !.last = stored(c, "performance_data"), !.got = <<out>>],
          c |-> c]

(* out: imp (the import resolved) and hist, the six histories *)
performanceSettle(c, t, f, out) ==
  IF out.imp
    THEN LET data == assetData(out.hist) IN
         [f |-> [f EXCEPT !.st = "fulfilled", !.val = <<data>>, !.calls = 6,
                          !.got = <<out>>],
          c |-> performanceStore(c, data, t)]
    ELSE [f |-> [f EXCEPT !.st = "rejected", !.fail = "import",
                          !.err = "Cannot find package 'yahoo-finance2'",
                          !.last = stored(c, "performance_data"), !.got = <<out>>],
          c |-> c]

(* ---- the request handlers ---- *)
(* a request: ep, st (open, answered, or unanswered: the handler threw and *)
(* sent nothing), f (its fetcher invocations by cache key), resp (the      *)
(* envelopes sent, in order), gone (the client has closed the connection;  *)
(* no handler listens for it, and res.json on a closed connection is       *)
(* dropped without an error)                                               *)
settled(rq) == \A k \in DOMAIN rq.f : rq.f[k].st # "pending"

(* null * x is 0 *)
times(price, a, b) ==
  IF price = << >> THEN [num |-> 0, den |-> 1]
  ELSE [num |-> price[1].num * a, den |-> price[1].den * b]

(* a stale value reported as a failure as well *)
pricesWarningsNamesFailure(metalsResult, stocksResult) ==
  (IF metalsResult.st = "fulfilled"
     THEN IF metalsResult.stale
            THEN <<"Unable to fetch metals prices", "Metals data may be stale">>
            ELSE << >>
     ELSE <<"Unable to fetch metals prices">>)
  \o
  (IF stocksResult.st = "fulfilled"
     THEN IF stocksResult.stale
            THEN <<"Unable to fetch stock indices", "Stock indices may be stale">>
            ELSE << >>
     ELSE <<"Unable to fetch stock indices">>)

(* the warnings with the stocks processed before the metals *)
pricesWarningsIndicesFirst(metalsResult, stocksResult) ==
  (IF stocksResult.st = "fulfilled"
     THEN IF stocksResult.stale THEN <<"Stock indices may be stale">> ELSE << >>
     ELSE <<"Unable to fetch stock indices">>)
  \o
  (IF metalsResult.st = "fulfilled"
     THEN IF metalsResult.stale THEN <<"Metals data may be stale">> ELSE << >>
     ELSE <<"Unable to fetch metals prices">>)

(* the warnings of /api/prices, from the two outcomes of Promise.allSettled *)
pricesWarnings(metalsResult, stocksResult) ==
  (IF metalsResult.st = "fulfilled"
     THEN IF metalsResult.stale THEN <<"Metals data may be stale">> ELSE << >>
     ELSE <<"Unable to fetch metals prices">>)
  \o
  (IF stocksResult.st = "fulfilled"
     THEN IF stocksResult.stale THEN <<"Stock indices may be stale">> ELSE << >>
     ELSE <<"Unable to fetch stock indices">>)

(* the data object with each field tested on its own price *)
pricesDataByPrice(metals, stocks) ==
  [gold |-> IF metals # << >> /\ metals[1].gold.price # << >>
      THEN <<[symbol |-> "XAU", name |-> "Gold",
              price |-> metals[1].gold.price,
              previousClose |-> times(metals[1].gold.price, 998, 1000),
              change |-> times(metals[1].gold.price, 2, 1000),
              changePercent |-> [num |-> 2, den |-> 10],
              unit |-> "USD/oz"]>>
      ELSE << >>,
   silver |-> IF metals # << >> /\ metals[1].silver.price # << >>
      THEN <<[symbol |-> "XAG", name |-> "Silver",
              price |-> metals[1].silver.price,
              previousClose |-> times(metals[1].silver.price, 995, 1000),
              change |-> times(metals[1].silver.price, 5, 1000),
              changePercent |-> [num |-> 5, den |-> 10],
              unit |-> "USD/oz"]>>
      ELSE << >>,
   sp500 |-> IF stocks # << >>
      THEN <<[symbol |-> "^GSPC", name |-> "S&P 500",
              price |-> stocks[1].sp500.price,
              previousClose |-> stocks[1].sp500.previousClose,
              change |-> stocks[1].sp500.change,
              changePercent |-> stocks[1].sp500.changePercent,
              marketState |-> stocks[1].sp500.marketState,
              unit |-> "points"]>>
      ELSE << >>,
   dow |-> IF stocks # << >>
      THEN <<[symbol |-> "^DJI", name |-> "Dow Jones",
              price |-> stocks[1].dow.price,
              previousClose |-> stocks[1].dow.previousClose,
              change |-> stocks[1].dow.change,
              changePercent |-> stocks[1].dow.changePercent,
              marketState |-> stocks[1].dow.marketState,
              unit |-> "points"]>>
      ELSE << >>]

(* the data object with the factors of silver applied to gold *)
pricesDataSilverFactors(metals, stocks) ==
  [gold |-> IF metals # << >>
      THEN <<[symbol |-> "XAU", name |-> "Gold",
              price |-> metals[1].gold.price,
              previousClose |-> times(metals[1].gold.price, 995, 1000),
              change |-> times(metals[1].gold.price, 5, 1000),
              changePercent |-> [num |-> 5, den |-> 10],
              unit |-> "USD/oz"]>>
      ELSE << >>,
   silver |-> IF metals # << >>
      THEN <<[symbol |-> "XAG", name |-> "Silver",
              price |-> metals[1].silver.price,
              previousClose |-> times(metals[1].silver.price, 995, 1000),
              change |-> times(metals[1].silver.price, 5, 1000),
              changePercent |-> [num |-> 5, den |-> 10],
              unit |-> "USD/oz"]>>
      ELSE << >>,
   sp500 |-> IF stocks # << >>
      THEN <<[symbol |-> "^GSPC", name |-> "S&P 500",
              price |-> stocks[1].sp500.price,
              previousClose |-> stocks[1].sp500.previousClose,
              change |-> stocks[1].sp500.change,
              changePercent |-> stocks[1].sp500.changePercent,
              marketState |-> stocks[1].sp500.marketState,
              unit |-> "points"]>>
      ELSE << >>,
   dow |-> IF stocks # << >>
      THEN <<[symbol |-> "^DJI", name |-> "Dow Jones",
              price |-> stocks[1].dow.price,
              previousClose |-> stocks[1].dow.previousClose,
              change |-> stocks[1].dow.change,
              changePercent |-> stocks[1].dow.changePercent,
              marketState |-> stocks[1].dow.marketState,
              unit |-> "points"]>>
      ELSE << >>]

(* the data object of /api/prices; metals and stocks are absent (null) or  *)
(* the values of the fulfilled fetchers                                    *)
pricesData(metals, stocks) ==
  [gold |-> IF metals # << >>
      THEN <<[symbol |-> "XAU", name |-> "Gold",
              price |-> metals[1].gold.price,
              previousClose |-> times(metals[1].gold.price, 998, 1000),
              change |-> times(metals[1].gold.price, 2, 1000),
              changePercent |-> [num |-> 2, den |-> 10],
              unit |-> "USD/oz"]>>
      ELSE << >>,
   silver |-> IF metals # << >>
      THEN <<[symbol |-> "XAG", name |-> "Silver",
              price |-> metals[1].silver.price,
              previousClose |-> times(metals[1].silver.price, 995, 1000),
              change |-> times(metals[1].silver.price, 5, 1000),
              changePercent |-> [num |-> 5, den |-> 10],
              unit |-> "USD/oz"]>>
      ELSE << >>,
   sp500 |-> IF stocks # << >>
      THEN <<[symbol |-> "^GSPC", name |-> "S&P 500",
              price |-> stocks[1].sp500.price,
              previousClose |-> stocks[1].sp500.previousClose,
              change |-> stocks[1].sp500.change,
              changePercent |-> stocks[1].sp500.changePercent,
              marketState |-> stocks[1].sp500.marketState,
              unit |-> "points"]>>
      ELSE << >>,
   dow |-> IF stocks # << >>
      THEN <<[symbol |-> "^DJI", name |-> "Dow Jones",
              price |-> stocks[1].dow.price,
              previousClose |-> stocks[1].dow.previousClose,
              change |-> stocks[1].dow.change,
              changePercent |-> stocks[1].dow.changePercent,
              marketState |-> stocks[1].dow.marketState,
              unit |-> "points"]>>
      ELSE << >>]

(* a both-sources failure answered as a failed request *)
pricesResponseFailsWhenAllFail(metalsResult, stocksResult, t) ==
  LET warnings == pricesWarnings(metalsResult, stocksResult) IN
  [status |-> 200,
   success |-> metalsResult.st = "fulfilled" \/ stocksResult.st = "fulfilled",
   data |-> pricesData(IF metalsResult.st = "fulfilled" THEN metalsResult.val ELSE << >>,
                       IF stocksResult.st = "fulfilled" THEN stocksResult.val ELSE << >>),
   lastUpdated |-> t,
   warnings |-> IF Len(warnings) > 0 THEN <<warnings>> ELSE << >>]

(* the envelope of /api/prices *)
pricesResponse(metalsResult, stocksResult, t) ==
  LET metals == IF metalsResult.st = "fulfilled" THEN metalsResult.val ELSE << >>
      stocks == IF stocksResult.st = "fulfilled" THEN stocksResult.val ELSE << >>
      warnings == pricesWarnings(metalsResult, stocksResult)
  IN
  [status |-> 200,
   success |-> TRUE,
   data |-> pricesData(metals, stocks),
   lastUpdated |-> t,
   warnings |-> IF Len(warnings) > 0 THEN <<warnings>> ELSE << >>]

(* Promise.all in place of Promise.allSettled: a rejected fetcher makes    *)
(* the handler throw before it sends anything                              *)
apiPricesFailFast(rq, t) ==
  IF \E k \in DOMAIN rq.f : rq.f[k].st = "rejected"
    THEN [rq EXCEPT !.st = "unanswered"]
  ELSE IF settled(rq)
    THEN [rq EXCEPT !.st = "answered",
                    !.resp = Append(@, pricesResponse(rq.f["metals_prices"],
                                                      rq.f["stock_indices"], t))]
    ELSE rq

(* app.get('/api/prices'): answers once both fetchers have settled *)
apiPrices(rq, t) ==
  IF settled(rq)
    THEN [rq EXCEPT !.st = "answered",
                    !.resp = Append(@, pricesResponse(rq.f["metals_prices"],
                                                      rq.f["stock_indices"], t))]
    ELSE rq

(* a failure answered as an empty success *)
articlesResponseHidesFailure(f, t) ==
  [status |-> 200, success |-> TRUE,
   articles |-> IF f.st = "fulfilled" THEN f.val[1] ELSE << >>, lastUpdated |-> t]

(* the try / catch of /api/news, /api/macro-news, /api/news/inflation and  *)
(* /api/news/gold                                                          *)
articlesResponse(f, t) ==
  IF f.st = "fulfilled"
    THEN [status |-> 200, success |-> TRUE, articles |-> f.val[1], lastUpdated |-> t]
    ELSE [status |-> 200, success |-> FALSE, error |-> f.err, articles |-> << >>]

(* the handler without its try / catch: the rejection of the fetcher       *)
(* leaves the request unanswered                                           *)
apiNewsNoCatch(k, rq, t) ==
  IF rq.f[k].st = "rejected"
    THEN [rq EXCEPT !.st = "unanswered"]
  ELSE IF settled(rq)
    THEN [rq EXCEPT !.st = "answered", !.resp = Append(@, articlesResponse(rq.f[k], t))]
    ELSE rq

apiNews(k, rq, t) ==
  IF settled(rq)
    THEN [rq EXCEPT !.st = "answered", !.resp = Append(@, articlesResponse(rq.f[k], t))]
    ELSE rq

(* the try / catch of /api/news/headlines *)
headlinesResponse(f, t) ==
  IF f.st = "fulfilled"
    THEN [status |-> 200, success |-> TRUE, headlines |-> f.val[1], lastUpdated |-> t]
    ELSE [status |-> 200, success |-> FALSE, error |-> f.err, headlines |-> << >>]

apiHeadlines(rq, t) ==
  IF settled(rq)
    THEN [rq EXCEPT !.st = "answered",
                    !.resp = Append(@, headlinesResponse(rq.f["bullish_headlines"], t))]
    ELSE rq

(* an envelope that reports a list with symbols missing *)
performanceResponseWarns(f) ==
  IF f.st = "fulfilled"
    THEN IF Len(f.val[1]) < Len(Symbols) + 2
           THEN [status |-> 200, success |-> TRUE, data |-> f.val[1],
                 warnings |-> <<"Some assets are unavailable">>]
           ELSE [status |-> 200, success |-> TRUE, data |-> f.val[1]]
    ELSE [status |-> 200, success |-> FALSE, error |-> f.err, data |-> << >>]

(* a catch block that answers with the list stored earlier *)
performanceResponseFallsBack(f) ==
  IF f.st = "fulfilled"
    THEN [status |-> 200, success |-> TRUE, data |-> f.val[1]]
  ELSE IF f.last # << >>
    THEN [status |-> 200, success |-> TRUE, data |-> f.last[1]]
  ELSE [status |-> 200, success |-> FALSE, error |-> f.err, data |-> << >>]

(* the three res.json calls of /api/performance *)
performanceResponse(f) ==
  IF f.st = "fulfilled"
    THEN [status |-> 200, success |-> TRUE, data |-> f.val[1]]
    ELSE [status |-> 200, success |-> FALSE, error |-> f.err, data |-> << >>]

apiPerformance(rq) ==
  IF settled(rq)
    THEN [rq EXCEPT !.st = "answered",
                    !.resp = Append(@, performanceResponse(rq.f["performance_data"]))]
    ELSE rq

(* a health check that reports an error *)
healthResponseDown(t) == [status |-> "error", timestamp |-> t, cacheTTL |-> CACHE_TTL]

(* the body of app.get('/api/health') *)
healthResponse(t) == [status |-> "ok", timestamp |-> t, cacheTTL |-> CACHE_TTL]

(* app.get('/api/health'): answered in the turn it arrives in *)
apiHealth(t) ==
  [id |-> 0, ep |-> "/api/health", st |-> "answered", f |-> << >>,
   resp |-> <<healthResponse(t)>>, gone |-> FALSE]

handle(rq, t) ==
  CASE rq.ep = "/api/prices" -> apiPrices(rq, t)
    [] rq.ep = "/api/news" -> apiNews("news", rq, t)
    [] rq.ep = "/api/macro-news" -> apiNews("macro_news", rq, t)
    [] rq.ep = "/api/news/inflation" -> apiNews("inflation_news", rq, t)
    [] rq.ep = "/api/news/gold" -> apiNews("gold_news", rq, t)
    [] rq.ep = "/api/news/headlines" -> apiHeadlines(rq, t)
    [] rq.ep = "/api/performance" -> apiPerformance(rq)

(* the part of a fetcher that runs in the turn of the request *)
fetchStart(k, c, t, e) ==
  CASE k = "metals_prices" -> fetchMetalsPricesStart(c, t, e)
    [] k = "stock_indices" -> fetchStockIndicesStart(c, t)
    [] k \in NewsKeys -> fetchNewsStart(k, c, t, e)
    [] k = "performance_data" -> performanceStart(c, t)

(* the part that runs when its upstream call has settled *)
fetchSettle(k, c, t, f, out) ==
  CASE k = "metals_prices" -> fetchMetalsPricesSettle(c, t, f, out)
    [] k = "stock_indices" -> fetchStockIndicesSettle(c, t, f, out)
    [] k \in NewsKeys -> fetchNewsSettle(k, c, t, f, out)
    [] k = "performance_data" -> performanceSettle(c, t, f, out)

(* ---- what the upstreams may answer ---- *)
rat(n) == [num |-> n, den |-> 1]

(* the answers of call r of the metals provider; timestamp tells the calls apart *)
MetalsBodies(r) ==
  {[rates |-> [USDXAU |-> <<rat(2000)>>, XAU |-> << >>,
               USDXAG |-> <<rat(25)>>, XAG |-> << >>],
    timestamp |-> r]}

article(title, n) ==
  [title |-> title, description |-> "d", source |-> [name |-> "s"],
   url |-> n, urlToImage |-> "i", publishedAt |-> n]

RawFeeds ==
  { <<article(1, 1), article(2, 2), article(3, 3)>>,
    <<article(5, 4), article(0, 5), article(6, 6), article(0, 7)>> }

RestFailures ==
  {[kind |-> "provider", msg |-> <<"quota exceeded">>, body |-> << >>],
   [kind |-> "provider", msg |-> << >>, body |-> << >>],
   [kind |-> "network", msg |-> <<"timeout of 10000ms exceeded">>, body |-> << >>]}

quote(r) ==
  [regularMarketPrice |-> 5000, regularMarketPreviousClose |-> 4990,
   regularMarketChange |-> 10, regularMarketChangePercent |-> [num |-> 10, den |-> 4990],
   marketState |-> "REGULAR", regularMarketTime |-> r]

(* the import of yahoo-finance2 resolves or not as the package is          *)
(* installed or not, the same for the life of the process                  *)
StockOutcomes(r, e) ==
  IF e.YAHOO_FINANCE
    THEN {[imp |-> TRUE, sp500 |-> a, dow |-> b] :
            a \in {<< >>, <<quote(r)>>}, b \in {<< >>, <<quote(r)>>}}
    ELSE {[imp |-> FALSE, sp500 |-> << >>, dow |-> << >>]}

history(closes) == [throws |-> FALSE, closes |-> closes]
thrown == [throws |-> TRUE, closes |-> << >>]

Histories ==
  { [i \in 1..6 |-> history(<<100, 120, 250>>)],
    [i \in 1..6 |-> thrown],
    <<history(<<100, 250>>), thrown, history(<<40>>), history(<<200, 150, 101>>),
      history(<<7, 9, 10>>), history(<<100, 149>>)>> }

PerformanceOutcomes(e) ==
  IF e.YAHOO_FINANCE
    THEN {[imp |-> TRUE, hist |-> h] : h \in Histories}
    ELSE {[imp |-> FALSE, hist |-> << >>]}

(* the answers of yf.historical for one symbol: a rejection, or up to      *)
(* MaxCloses monthly closes, each any of four prices                       *)
ClosePrices == {100, 197, 200, 250}

AnyHistory ==
  {thrown} \cup
  UNION {{history(cs) : cs \in [1..n -> ClosePrices]} : n \in 0..MaxCloses}

(* the history that symbol i has when it is answered *)
goodHistory(i) == history(<<100, 100 + 50 * i>>)

(* the six histories: any subset of the symbols answered, and any history  *)
(* for one symbol while the others are all answered or all rejected        *)
PerformanceHistories ==
  {[i \in 1..Len(Symbols) |-> IF i \in S THEN goodHistory(i) ELSE thrown] :
     S \in SUBSET (1..Len(Symbols))}
  \cup
  {[i \in 1..Len(Symbols) |-> IF i = v THEN h ELSE IF good THEN goodHistory(i) ELSE thrown] :
     v \in 1..Len(Symbols), h \in AnyHistory, good \in BOOLEAN}

HistoryOutcomes(e) ==
  IF e.YAHOO_FINANCE
    THEN {[imp |-> TRUE, hist |-> h] : h \in PerformanceHistories}
    ELSE {[imp |-> FALSE, hist |-> << >>]}

Outcomes(k, r, e) ==
  CASE k = "metals_prices" ->
         {[kind |-> "ok", msg |-> << >>, body |-> <<b>>] : b \in MetalsBodies(r)}
         \cup RestFailures
    [] k = "stock_indices" -> StockOutcomes(r, e)
    [] k \in NewsKeys ->
         {[kind |-> "ok", msg |-> << >>, body |-> <<b>>] : b \in RawFeeds}
         \cup RestFailures
    [] k = "performance_data" -> PerformanceOutcomes(e)

(* the answers of the metals provider with success true: the rates quoted  *)
(* in dollars, at one price or another, or as their inverses, or left out  *)
rates(usdxau, xau, usdxag, xag) ==
  [USDXAU |-> usdxau, XAU |-> xau, USDXAG |-> usdxag, XAG |-> xag]

AnyMetalsBodies(r) ==
  {[rates |-> x, timestamp |-> r] :
     x \in {rates(<<rat(2000)>>, << >>, <<rat(25)>>, << >>),
            rates(<<rat(1900)>>, << >>, <<rat(24)>>, << >>),
            rates(<<rat(0)>>, <<[num |-> 1, den |-> 2000]>>, << >>, <<[num |-> 1, den |-> 25]>>),
            rates(<<rat(2000)>>, << >>, << >>, << >>),
            rates(<< >>, << >>, << >>, << >>)}}

(* what the upstream calls of /api/prices answer: any of the metals        *)
(* provider's bodies or a failure of it; the quotes as before              *)
PricesOutcomes(k, r, e) ==
  IF k = "metals_prices"
    THEN {[kind |-> "ok", msg |-> << >>, body |-> <<b>>] : b \in AnyMetalsBodies(r)}
         \cup {o \in RestFailures : o.msg # << >>}
    ELSE StockOutcomes(r, e)

(* response.data.articles of up to MaxFeed articles, each with any of the  *)
(* base titles or none; an article's url is its place in the response      *)
NewsFeeds ==
  UNION {{[i \in 1..n |-> article(ts[i], i)] : ts \in [1..n -> 0..Len(BaseTitles)]} :
           n \in 0..MaxFeed}

NewsOutcomes == {[kind |-> "ok", msg |-> << >>, body |-> <<b>>] : b \in NewsFeeds}

(* a long response: n articles with the numbered titles in order, with a   *)
(* second article of title dup right after the first (dup = 0: none) and,  *)
(* if red, an article with a redacted title in front                       *)
longFeed(n, dup, red) ==
  LET titles ==
        (IF red THEN <<CHOOSE x \in RemovedTitles : TRUE>> ELSE << >>)
        \o [i \in 1..(n + IF dup > 0 THEN 1 ELSE 0) |->
              Len(BaseTitles) + (IF dup > 0 /\ i > dup THEN i - 1 ELSE i)]
  IN [i \in 1..Len(titles) |-> article(titles[i], i)]

LongFeeds == {longFeed(n, dup, red) : n \in 1..MaxLong, dup \in 0..MaxLong, red \in BOOLEAN}

LongOutcomes == {[kind |-> "ok", msg |-> << >>, body |-> <<b>>] : b \in LongFeeds}

(* the keys fetched with axios.get(url, { timeout: 10000 }) *)
AxiosKeys == {"metals_prices"} \cup NewsKeys

(* the instants at which a read of the cache may change its answer: the    *)
(* instant an entry expires at (the last at which get returns it) and the  *)
(* second after                                                            *)
Instants(c) ==
  UNION {{c[k][1].t, c[k][1].t + 1} : k \in {x \in Keys : c[x] # << >>}}

(* ---- the client hook useMarketData (src/hooks/useNews.js) ---- *)
(* hook holds the state of one mounted useMarketData: the values of its    *)
(* useState cells, the prevPricesRef ref, whether a timer that clears      *)
(* updatedTiles is pending, held (the data captured by the fetchData that  *)
(* the interval and refresh currently call: fetchData is rebuilt by        *)
(* useCallback when data changes and the interval effect then takes the    *)
(* new one) and the calls of fetchData, each with the data its closure     *)
(* saw.  data[key] stands for result.data[key]?.price.                     *)
TileKeys == {"gold", "silver", "sp500", "dow"}

priceData(gold, silver, sp500, dow) ==
  [gold |-> gold, silver |-> silver, sp500 |-> sp500, dow |-> dow]

(* what fetch('/api/prices') and response.json() give a call of fetchData *)
HookResponses ==
  {[kind |-> "ok", data |-> priceData(<<1>>, <<1>>, <<1>>, <<1>>),
    warnings |-> << >>, lastUpdated |-> 1],
   [kind |-> "ok", data |-> priceData(<<2>>, <<1>>, <<1>>, <<1>>),
    warnings |-> << >>, lastUpdated |-> 2],
   [kind |-> "ok", data |-> priceData(<<2>>, <<1>>, <<1>>, <<1>>),
    warnings |-> << <<"Metals data may be stale">> >>, lastUpdated |-> 2],
   [kind |-> "ok", data |-> priceData(<< >>, << >>, <<1>>, <<1>>),
    warnings |-> << <<"Unable to fetch metals prices">> >>, lastUpdated |-> 2],
   [kind |-> "status", data |-> << >>, warnings |-> << >>, lastUpdated |-> 0],
   [kind |-> "unsuccessful", data |-> << >>, warnings |-> << >>, lastUpdated |-> 0],
   [kind |-> "network", data |-> << >>, warnings |-> << >>, lastUpdated |-> 0]}

(* err.message in the catch block of fetchData *)
fetchErrorMessage(res) ==
  CASE res.kind = "status" -> "HTTP error: 500"
    [] res.kind = "unsuccessful" -> "API returned unsuccessful response"
    [] res.kind = "network" -> "Failed to fetch"

(* the hook as mounted, before its effects: the initial values of useState *)
(* and useRef                                                              *)
hookState ==
  [data |-> << >>, loading |-> TRUE, error |-> << >>, lastUpdated |-> << >>,
   warnings |-> << >>, prevPrices |-> [k \in TileKeys |-> << >>],
   updatedTiles |-> {}, timer |-> FALSE, held |-> << >>, calls |-> << >>]

(* fetchData up to its await of fetch *)
fetchDataStart(h, isInitialFetch) ==
  [h EXCEPT !.loading = IF isInitialFetch THEN TRUE ELSE @,
            !.calls = Append(@, [seen |-> h.held, initial |-> isInitialFetch,
                                 st |-> "pending"])]

(* fetchData from the answer of fetch on: the try block, the catch block   *)
(* with its "if (!data) setData(null)" on the data the closure captured,   *)
(* and the finally block                                                   *)
fetchDataSettle(h, c, res) ==
  LET done == [h.calls EXCEPT ![c] = [seen |-> << >>, initial |-> @.initial, st |-> "done"]] IN
  IF res.kind = "ok"
    THEN LET newUpdatedTiles ==
               {k \in TileKeys : h.prevPrices[k] # << >> /\ res.data[k] # h.prevPrices[k]}
         IN [h EXCEPT !.prevPrices = [k \in TileKeys |->
                                        IF res.data[k] # << >> THEN res.data[k] ELSE @[k]],
                      !.updatedTiles = IF newUpdatedTiles # {} THEN newUpdatedTiles ELSE @,
                      !.timer = @ \/ newUpdatedTiles # {},
                      !.data = <<res.data>>,
                      !.warnings = IF res.warnings = << >> THEN << >> ELSE res.warnings[1],
                      !.lastUpdated = <<res.lastUpdated>>,
                      !.error = << >>,
                      !.loading = FALSE,
                      !.calls = done]
    ELSE [h EXCEPT !.error = <<fetchErrorMessage(res)>>,
                   !.data = IF h.calls[c].seen = << >> THEN << >> ELSE @,
                   !.loading = FALSE,
                   !.calls = done]

(* the hook after its mount effect has called fetchData(true) *)
useMarketData == fetchDataStart(hookState, TRUE)

(* ---- the client component NewsWidget (src/components/NewsWidget.js) ---- *)
(* widget holds the state of one mounted NewsWidget: its useState cells    *)
(* (currentIndex counts from 0, as in the source), the calls of            *)
(* fetchArticles awaiting their answer (fetches) and issued so far         *)
(* (calls), rotating (the articles.length captured by the rotation         *)
(* interval now set; up to 1: no interval) and the timeouts pending.  An   *)
(* article is its place in the response it came in.                        *)
articleList(n) == [i \in 1..n |-> i]

(* what fetch(config.endpoint) and response.json() give fetchArticles: an  *)
(* envelope with a list, the failure envelope of the server, or a          *)
(* rejection                                                               *)
WidgetResponses ==
  {[kind |-> "ok", success |-> TRUE, articles |-> articleList(n)] : n \in 0..MaxArticles}
  \cup {[kind |-> "ok", success |-> FALSE, articles |-> << >>],
        [kind |-> "network", success |-> FALSE, articles |-> << >>]}

(* the initial values of useState *)
widgetState ==
  [articles |-> << >>, currentIndex |-> 0, loading |-> TRUE, error |-> << >>,
   slideDirection |-> "", fetches |-> 0, calls |-> 0, rotating |-> 0, timers |-> {}]

(* fetchArticles up to its await of fetch *)
fetchArticlesStart(w) == [w EXCEPT !.fetches = @ + 1, !.calls = @ + 1]

(* fetchArticles from the answer on: try, catch and finally *)
fetchArticlesSettle(w, res) ==
  LET v == [w EXCEPT !.fetches = @ - 1, !.loading = FALSE] IN
  IF res.kind = "ok"
    THEN IF res.success /\ Len(res.articles) > 0
           THEN [v EXCEPT !.articles = res.articles, !.error = << >>]
         ELSE IF Len(res.articles) = 0
           THEN [v EXCEPT !.error = <<"No recent articles found">>]
         ELSE v
    ELSE [v EXCEPT !.error = <<"Failed to fetch">>]

(* a pending setTimeout callback *)
timeout(kind, len, index, dir) == [kind |-> kind, len |-> len, index |-> index, dir |-> dir]

(* goToSlide(index), called from a dot *)
goToSlide(w, index) ==
  IF index = w.currentIndex \/ w.slideDirection # "" THEN w
  ELSE IF index > w.currentIndex
    THEN [w EXCEPT !.slideDirection = "slide-out-left",
                   !.timers = @ \cup {timeout("goto", 0, index, "slide-in-right")}]
  ELSE [w EXCEPT !.slideDirection = "slide-out-right",
                 !.timers = @ \cup {timeout("goto", 0, index, "slide-in-left")}]

(* the callback of a timeout: the first of a rotation, the first of a      *)
(* manual selection, or the one that clears slideDirection                 *)
fire(w, tm) ==
  LET rest == w.timers \ {tm} IN
  CASE tm.kind = "advance" ->
         [w EXCEPT !.currentIndex = (@ + 1) % tm.len,
                   !.slideDirection = "slide-in-right",
                   !.timers = rest \cup {timeout("clear", 0, 0, "")}]
    [] tm.kind = "goto" ->
         [w EXCEPT !.currentIndex = tm.index,
                   !.slideDirection = tm.dir,
                   !.timers = rest \cup {timeout("clear", 0, 0, "")}]
    [] tm.kind = "clear" ->
         [w EXCEPT !.slideDirection = "", !.timers = rest]

(* what the component returns: the skeleton, the empty state, the article  *)
(* at currentIndex, or nothing, when articles[currentIndex] is undefined   *)
(* and reading article.image throws                                        *)
view(w) ==
  IF w.loading THEN "skeleton"
  ELSE IF w.error # << >> \/ Len(w.articles) = 0 THEN "empty"
  ELSE IF w.currentIndex < Len(w.articles) THEN "article"
  ELSE "throws"

(* the component after its mount effects: fetchArticles called, no         *)
(* rotation interval for an empty list                                     *)
NewsWidget == fetchArticlesStart(widgetState)

(* ---- the state machine ---- *)
(* reqs keeps the requests in flight; a request that was answered (or left *)
(* unanswered) is kept in last, and in reqs only as its endpoint, state    *)
(* and number of envelopes sent.  stamp records, for each key, when its    *)
(* entry was written and with which value.                                 *)
Init ==
  /\ now = 0
  /\ env \in [METALS_API_KEY : BOOLEAN, NEWS_API_KEY : BOOLEAN, YAHOO_FINANCE : BOOLEAN]
  /\ cache = [k \in Keys |-> << >>]
  /\ reqs = << >>
  /\ last = << >>
  /\ stamp = [k \in Keys |-> << >>]
  /\ hook = useMarketData
  /\ widget = NewsWidget

closed(rq) == [ep |-> rq.ep, st |-> rq.st, f |-> << >>, sent |-> Len(rq.resp)]

record(rs, r, rq) ==
  LET n == IF r > Len(rs) THEN r ELSE Len(rs) IN
  [i \in 1..n |-> IF i # r THEN rs[i] ELSE IF rq.st = "open" THEN rq ELSE closed(rq)]

(* time passes, up to instant t, while a request is in flight or may still *)
(* arrive; an axios call still pending is settled by its timeout before    *)
(* the clock passes it                                                     *)
Tick(t) ==
  /\ t > now
  /\ Len(reqs) < MaxReq \/ \E r \in 1..Len(reqs) : reqs[r].st = "open"
  /\ \A r \in 1..Len(reqs) : \A k \in DOMAIN reqs[r].f :
        (reqs[r].f[k].st = "pending" /\ k \in AxiosKeys)
          => t <= reqs[r].f[k].issuedAt + AXIOS_TIMEOUT
  /\ now' = t
  /\ UNCHANGED <<env, cache, reqs, last, stamp, hook, widget>>

(* a request arrives: its handler runs up to its first await.  No two      *)
(* endpoints share a cache key, so a run follows the requests to one       *)
(* endpoint.                                                               *)
StartRequest(ep) ==
  /\ Len(reqs) < MaxReq
  /\ \A r \in 1..Len(reqs) : reqs[r].ep = ep
  /\ LET r == Len(reqs) + 1
         rq == handle([id |-> r, ep |-> ep, st |-> "open",
                       f |-> [k \in KeysOf(ep) |-> fetchStart(k, cache, now, env)],
                       resp |-> << >>, gone |-> FALSE], now)
     IN /\ reqs' = record(reqs, r, rq)
        /\ last' = IF rq.st = "open" THEN last ELSE <<rq>>
  /\ UNCHANGED <<now, env, cache, stamp, hook, widget>>

(* the result of a call that settles after the client has gone is not     *)
(* stored                                                                  *)
SettleDropsWhenGone(r, k, out) ==
  /\ reqs[r].st = "open"
  /\ reqs[r].f[k].st = "pending"
  /\ LET got == fetchSettle(k, cache, now, reqs[r].f[k], out)
         res == [f |-> got.f, c |-> IF reqs[r].gone THEN cache ELSE got.c]
         rq == handle([reqs[r] EXCEPT !.f[k] = res.f], now)
     IN /\ cache' = res.c
        /\ stamp' = IF res.c[k] # cache[k]
                      THEN [stamp EXCEPT ![k] = <<[at |-> now, v |-> res.c[k][1].v]>>]
                      ELSE stamp
        /\ reqs' = record(reqs, r, rq)
        /\ last' = IF rq.st = "open" THEN last ELSE <<rq>>
  /\ UNCHANGED <<now, env, hook, widget>>

(* the upstream call of fetcher k of request r settles with out *)
Settle(r, k, out) ==
  /\ reqs[r].st = "open"
  /\ reqs[r].f[k].st = "pending"
  /\ LET res == fetchSettle(k, cache, now, reqs[r].f[k], out)
         rq == handle([reqs[r] EXCEPT !.f[k] = res.f], now)
     IN /\ cache' = res.c
        /\ stamp' = IF res.c[k] # cache[k]
                      THEN [stamp EXCEPT ![k] = <<[at |-> now, v |-> res.c[k][1].v]>>]
                      ELSE stamp
        /\ reqs' = record(reqs, r, rq)
        /\ last' = IF rq.st = "open" THEN last ELSE <<rq>>
  /\ UNCHANGED <<now, env, hook, widget>>

Next ==
  \/ \E t \in Instants(cache) : Tick(t)
  \/ \E ep \in Endpoints : StartRequest(ep)
  \/ \E r \in 1..Len(reqs) : \E k \in DOMAIN reqs[r].f :
        \E out \in Outcomes(k, r, env) : Settle(r, k, out)

Spec == Init /\ [][Next]_vars

(* a health check arrives and is answered; it is kept in last *)
Health ==
  /\ last' = <<apiHealth(now)>>
  /\ UNCHANGED <<now, env, cache, reqs, stamp, hook, widget>>

(* the client of request r closes the connection while the request waits   *)
(* for its upstream calls                                                  *)
Abandon(r) ==
  /\ reqs[r].st = "open"
  /\ reqs[r].gone = FALSE
  /\ reqs' = [reqs EXCEPT ![r].gone = TRUE]
  /\ UNCHANGED <<now, env, cache, last, stamp, hook, widget>>

(* what an upstream call answers a request that may be abandoned: its      *)
(* success or one failure of it (the transport's; for the quotes, the Dow's) *)
AbandonOutcomes(k, r, e) ==
  CASE k = "stock_indices" -> {o \in StockOutcomes(r, e) : o.imp => o.sp500 # << >>}
    [] k = "performance_data" -> PerformanceOutcomes(e)
    [] OTHER -> {o \in Outcomes(k, r, e) : o.kind \in {"ok", "network"}}

(* the server with clients that may give up *)
NextAbandon ==
  \/ \E t \in Instants(cache) : Tick(t)
  \/ \E ep \in Endpoints : StartRequest(ep)
  \/ \E r \in 1..Len(reqs) : \E k \in DOMAIN reqs[r].f :
        \E out \in AbandonOutcomes(k, r, env) : Settle(r, k, out)
  \/ \E r \in 1..Len(reqs) : Abandon(r)

SpecAbandon == Init /\ [][NextAbandon]_vars

(* requests to /api/prices one after the other, the metals provider        *)
(* answering with any body                                                 *)
NextPrices ==
  \/ \E t \in Instants(cache) : Tick(t)
  \/ (\A r \in 1..Len(reqs) : reqs[r].st # "open") /\ StartRequest("/api/prices")
  \/ \E r \in 1..Len(reqs) : \E k \in DOMAIN reqs[r].f :
        \E out \in PricesOutcomes(k, r, env) : Settle(r, k, out)

SpecPrices == Init /\ [][NextPrices]_vars

(* the package yahoo-finance2 is removed from disk while the server runs:  *)
(* from then on await import('yahoo-finance2') rejects                     *)
Remove ==
  /\ env.YAHOO_FINANCE
  /\ env' = [env EXCEPT !.YAHOO_FINANCE = FALSE]
  /\ UNCHANGED <<now, cache, reqs, last, stamp, hook, widget>>

(* requests to /api/performance on a server that may lose the package *)
NextRemoval ==
  \/ \E t \in Instants(cache) : Tick(t)
  \/ StartRequest("/api/performance")
  \/ \E r \in 1..Len(reqs) : \E k \in DOMAIN reqs[r].f :
        \E out \in PerformanceOutcomes(env) : Settle(r, k, out)
  \/ Remove

SpecRemoval == Init /\ [][NextRemoval]_vars

(* the interval fires, or refresh is called: fetchData(false) *)
HookRefresh ==
  /\ Len(hook.calls) < MaxCalls
  /\ hook' = fetchDataStart(hook, FALSE)
  /\ UNCHANGED <<now, env, cache, reqs, last, stamp, widget>>

(* the render after data changed: useCallback builds a new fetchData and   *)
(* the interval effect takes it                                            *)
HookRender ==
  /\ hook.held # hook.data
  /\ hook' = [hook EXCEPT !.held = hook.data]
  /\ UNCHANGED <<now, env, cache, reqs, last, stamp, widget>>

(* the fetch of call c of fetchData is answered *)
HookRespond(c, res) ==
  /\ hook.calls[c].st = "pending"
  /\ hook' = fetchDataSettle(hook, c, res)
  /\ UNCHANGED <<now, env, cache, reqs, last, stamp, widget>>

(* setTimeout(() => setUpdatedTiles({}), 600) *)
HookClearTiles ==
  /\ hook.timer
  /\ hook' = [hook EXCEPT !.updatedTiles = {}, !.timer = FALSE]
  /\ UNCHANGED <<now, env, cache, reqs, last, stamp, widget>>

(* the widget's hook, its fetches answered in any order *)
NextHook ==
  \/ HookRefresh
  \/ HookRender
  \/ \E c \in 1..Len(hook.calls) : \E res \in HookResponses : HookRespond(c, res)
  \/ HookClearTiles

SpecHook == Init /\ [][NextHook]_vars

(* setInterval(fetchArticles, REFRESH_INTERVAL) fires *)
WidgetRefresh ==
  /\ widget.calls < MaxFetches
  /\ widget' = fetchArticlesStart(widget)
  /\ UNCHANGED <<now, env, cache, reqs, last, stamp, hook>>

(* a fetch of fetchArticles is answered *)
WidgetRespond(res) ==
  /\ widget.fetches > 0
  /\ widget' = fetchArticlesSettle(widget, res)
  /\ UNCHANGED <<now, env, cache, reqs, last, stamp, hook>>

(* the rotation effect runs again after articles.length changed: the old   *)
(* interval is cleared and, for more than one article, a new one is set    *)
WidgetEffect ==
  /\ widget.rotating # Len(widget.articles)
  /\ widget' = [widget EXCEPT !.rotating = Len(widget.articles)]
  /\ UNCHANGED <<now, env, cache, reqs, last, stamp, hook>>

(* the rotation interval fires *)
WidgetRotate ==
  /\ widget.rotating > 1
  /\ ~\E tm \in widget.timers : tm.kind = "advance"
  /\ widget' = [widget EXCEPT !.slideDirection = "slide-out-left",
                              !.timers = @ \cup {timeout("advance", widget.rotating, 0, "")}]
  /\ UNCHANGED <<now, env, cache, reqs, last, stamp, hook>>

(* a click on one of the dots the component shows *)
WidgetGoToSlide(index) ==
  /\ view(widget) = "article"
  /\ Len(widget.articles) > 1
  /\ ~\E tm \in widget.timers : tm.kind = "goto"
  /\ widget' = goToSlide(widget, index)
  /\ UNCHANGED <<now, env, cache, reqs, last, stamp, hook>>

(* a pending timeout fires *)
WidgetTimeout(tm) ==
  /\ widget' = fire(widget, tm)
  /\ UNCHANGED <<now, env, cache, reqs, last, stamp, hook>>

(* the carousel: refreshes, rotation and manual selection in any order *)
NextWidget ==
  \/ WidgetRefresh
  \/ \E res \in WidgetResponses : WidgetRespond(res)
  \/ WidgetEffect
  \/ WidgetRotate
  \/ \E index \in 0..(Len(widget.articles) - 1) : WidgetGoToSlide(index)
  \/ \E tm \in widget.timers : WidgetTimeout(tm)

SpecWidget == Init /\ [][NextWidget]_vars

(* one request to a news endpoint, answered by any response of the provider *)
NextNews ==
  \/ \E ep \in {e \in Endpoints : KeysOf(e) \subseteq NewsKeys} :
        reqs = << >> /\ StartRequest(ep)
  \/ \E r \in 1..Len(reqs) : \E k \in DOMAIN reqs[r].f :
        \E out \in NewsOutcomes : Settle(r, k, out)

SpecNews == Init /\ [][NextNews]_vars

(* one request to a news endpoint, answered by a long response *)
NextLong ==
  \/ \E ep \in {e \in Endpoints : KeysOf(e) \subseteq NewsKeys} :
        reqs = << >> /\ StartRequest(ep)
  \/ \E r \in 1..Len(reqs) : \E k \in DOMAIN reqs[r].f :
        \E out \in LongOutcomes : Settle(r, k, out)

SpecLong == Init /\ [][NextLong]_vars

(* one request to /api/performance, answered by any of the histories *)
NextPerformance ==
  \/ reqs = << >> /\ StartRequest("/api/performance")
  \/ \E r \in 1..Len(reqs) : \E k \in DOMAIN reqs[r].f :
        \E out \in HistoryOutcomes(env) : Settle(r, k, out)

SpecPerformance == Init /\ [][NextPerformance]_vars

(* the server with its health endpoint polled *)
NextHealth == Next \/ Health

SpecHealth == Init /\ [][NextHealth]_vars

(* ---- the properties ---- *)
(* the requests whose fetcher invocations are on record: those in flight   *)
(* and the one closed last                                                 *)
Visible ==
  {reqs[r] : r \in {i \in 1..Len(reqs) : reqs[i].st = "open"}}
  \cup {last[i] : i \in 1..Len(last)}

Fetches == UNION {{[k |-> k, f |-> rq.f[k]] : k \in DOMAIN rq.f} : rq \in Visible}

(* the fetcher got its value from the cache hit or from a successful call *)
succeeded(f) == f.st = "fulfilled" /\ f.fail = "none"

(* the fetcher's call failed while nothing was stored under its key *)
failedNoEntry(f) == f.st # "pending" /\ f.fail # "none" /\ f.last = << >>

(* C1: on /api/prices, when one source succeeds and the other fails with   *)
(* no cache entry for its key, the envelope has success true, the fields   *)
(* of the succeeding source populated with its value, the fields of the    *)
(* failing source null, and the failure warning as its only warning.       *)
C1_PartialFailure ==
  \A i \in 1..Len(last) :
    LET rq == last[i] IN
    rq.ep = "/api/prices" =>
      LET m == rq.f["metals_prices"]
          s == rq.f["stock_indices"] IN
      /\ (succeeded(m) /\ failedNoEntry(s)) =>
           /\ rq.st = "answered"
           /\ Len(rq.resp) = 1
           /\ rq.resp[1].success = TRUE
           /\ rq.resp[1].data.gold # << >>
           /\ rq.resp[1].data.gold[1].price = m.val[1].gold.price
           /\ rq.resp[1].data.silver # << >>
           /\ rq.resp[1].data.silver[1].price = m.val[1].silver.price
           /\ rq.resp[1].data.sp500 = << >>
           /\ rq.resp[1].data.dow = << >>
           /\ rq.resp[1].warnings = << <<"Unable to fetch stock indices">> >>
      /\ (succeeded(s) /\ failedNoEntry(m)) =>
           /\ rq.st = "answered"
           /\ Len(rq.resp) = 1
           /\ rq.resp[1].success = TRUE
           /\ rq.resp[1].data.sp500 # << >>
           /\ rq.resp[1].data.sp500[1].price = s.val[1].sp500.price
           /\ rq.resp[1].data.dow # << >>
           /\ rq.resp[1].data.dow[1].price = s.val[1].dow.price
           /\ rq.resp[1].data.gold = << >>
           /\ rq.resp[1].data.silver = << >>
           /\ rq.resp[1].warnings = << <<"Unable to fetch metals prices">> >>

(* a /api/prices request answered after the metals call succeeded and the  *)
(* quotes failed with nothing cached                                       *)
C1_Witness ==
  \E i \in 1..Len(last) :
    /\ last[i].ep = "/api/prices"
    /\ last[i].st = "answered"
    /\ succeeded(last[i].f["metals_prices"])
    /\ last[i].f["metals_prices"].calls = 1
    /\ failedNoEntry(last[i].f["stock_indices"])

(* the fetcher's call failed and it had found, at its start, an entry that *)
(* an earlier fetch had stored and that had expired                        *)
failedOnExpired(f) ==
  f.st # "pending" /\ f.fail # "none" /\ f.prev # << >> /\ f.exp[1] < f.issuedAt

(* C2: on /api/prices, a source fetched successfully earlier, whose entry  *)
(* has expired and whose upstream call now fails, is answered with the     *)
(* value fetched earlier and the 'may be stale' warning, not with the      *)
(* 'Unable to fetch' warning and null fields.                              *)
C2_StaleAfterExpiry ==
  \A i \in 1..Len(last) :
    LET rq == last[i] IN
    (rq.ep = "/api/prices" /\ rq.st = "answered") =>
      LET m == rq.f["metals_prices"]
          s == rq.f["stock_indices"]
          w == IF rq.resp[1].warnings = << >> THEN << >> ELSE rq.resp[1].warnings[1]
          has(x) == \E j \in 1..Len(w) : w[j] = x IN
      /\ failedOnExpired(m) =>
           /\ rq.resp[1].data.gold # << >>
           /\ rq.resp[1].data.gold[1].price = m.last[1].gold.price
           /\ rq.resp[1].data.silver # << >>
           /\ has("Metals data may be stale")
           /\ ~has("Unable to fetch metals prices")
      /\ failedOnExpired(s) =>
           /\ rq.resp[1].data.sp500 # << >>
           /\ rq.resp[1].data.sp500[1].price = s.last[1].sp500.price
           /\ rq.resp[1].data.dow # << >>
           /\ has("Stock indices may be stale")
           /\ ~has("Unable to fetch stock indices")

(* C3: on /api/prices, when both fetchers fail with no fallback value, the *)
(* envelope still has success true, its four data fields are null and both *)
(* failure warnings are present.                                           *)
C3_BothFail ==
  \A i \in 1..Len(last) :
    LET rq == last[i] IN
    rq.ep = "/api/prices" =>
      LET m == rq.f["metals_prices"]
          s == rq.f["stock_indices"] IN
      (/\ m.st # "pending" /\ m.fail # "none" /\ m.fb = << >>
       /\ s.st # "pending" /\ s.fail # "none" /\ s.fb = << >>) =>
        /\ rq.st = "answered"
        /\ Len(rq.resp) = 1
        /\ rq.resp[1].status = 200
        /\ rq.resp[1].success = TRUE
        /\ rq.resp[1].data.gold = << >>
        /\ rq.resp[1].data.silver = << >>
        /\ rq.resp[1].data.sp500 = << >>
        /\ rq.resp[1].data.dow = << >>
        /\ rq.resp[1].warnings =
             << <<"Unable to fetch metals prices", "Unable to fetch stock indices">> >>

(* a /api/prices request answered after both fetchers failed: the metals   *)
(* call by the provider's own failure, a quote by its rejection            *)
C3_Witness ==
  \E i \in 1..Len(last) :
    /\ last[i].ep = "/api/prices"
    /\ last[i].st = "answered"
    /\ last[i].f["metals_prices"].fail = "provider"
    /\ last[i].f["metals_prices"].fb = << >>
    /\ last[i].f["stock_indices"].fail = "network"
    /\ last[i].f["stock_indices"].fb = << >>

(* at its start the fetcher's key held an entry that had not expired *)
startedOnFresh(f) == f.prev # << >> /\ f.issuedAt <= f.exp[1]

(* C4: a fetcher that finds an unexpired entry under its key returns that  *)
(* entry, issues no external call and raises no error, whatever the        *)
(* credentials and whatever the upstream would have answered.              *)
C4_CacheHit ==
  \A x \in Fetches :
    startedOnFresh(x.f) =>
      /\ x.f.st = "fulfilled"
      /\ x.f.val = x.f.prev
      /\ ~x.f.stale
      /\ x.f.calls = 0
      /\ x.f.fail = "none"
      /\ x.f.err = ""

(* a request answered from an unexpired entry that an earlier request stored *)
C4_Witness ==
  \E i \in 1..Len(last) : \E k \in DOMAIN last[i].f :
    /\ startedOnFresh(last[i].f[k])
    /\ last[i].f[k].hit
    /\ last[i].st = "answered"
    /\ last[i].id > 1

(* C5: for every key, get returns the value stored while now - storedAt <= *)
(* ttl of its source, and absent at every later time until the key is      *)
(* written again (and absent for a key never written).                     *)
C5_GetHonoursTtl ==
  \A k \in Keys :
    cacheGet(cache, k, now) =
      IF stamp[k] # << >> /\ now - stamp[k][1].at <= TTLOf(k)
        THEN <<stamp[k][1].v>>
        ELSE << >>

(* an entry read at the last instant of its ttl *)
C5_Witness ==
  \E k \in Keys :
    /\ stamp[k] # << >>
    /\ now - stamp[k][1].at = TTLOf(k)
    /\ cacheGet(cache, k, now) = <<stamp[k][1].v>>

(* the fetcher's call failed (or its credential was missing) *)
failed(f) == f.st # "pending" /\ f.fail # "none"

(* C6: the read of the fallback path returns the value last stored under   *)
(* the key at any time after it was written, also after its ttl, and is    *)
(* absent only for a key never written.                                    *)
C6_FallbackReadsExpired ==
  \A x \in Fetches :
    (failed(x.f) /\ x.k # "performance_data") => x.f.fb = x.f.last

(* the messages a failure of each kind of fetcher k carries *)
FailureMessages(k, kind) ==
  CASE kind = "config" ->
         {IF k = "metals_prices" THEN "METALS_API_KEY not configured"
                                 ELSE "NEWS_API_KEY not configured"}
    [] kind = "provider" ->
         {"quota exceeded",
          IF k = "metals_prices" THEN "Metals API request failed"
                                 ELSE "NewsAPI request failed"}
    [] kind = "network" -> {"timeout of 10000ms exceeded", "Yahoo Finance quote failed"}
    [] kind = "import" -> {"Cannot find package 'yahoo-finance2'"}

(* C7: for every fetcher, the news fetchers included, a failed fetch with  *)
(* a fallback value returns it tagged stale; with none the failure is      *)
(* propagated.                                                             *)
C7_AlwaysTagged ==
  \A x \in Fetches :
    failed(x.f) =>
      IF x.f.fb # << >>
        THEN x.f.st = "fulfilled" /\ x.f.val = x.f.fb /\ x.f.stale
        ELSE x.f.st = "rejected" /\ x.f.err \in FailureMessages(x.k, x.f.fail)

(* C7, amended: the metals and indices fetchers return the fallback value  *)
(* tagged stale; the five news fetchers return it as it is, untagged; with *)
(* no fallback value every fetcher propagates the failure.                 *)
C7_TaggedForPricesOnly ==
  \A x \in Fetches :
    failed(x.f) =>
      IF x.f.fb # << >>
        THEN /\ x.f.st = "fulfilled"
             /\ x.f.val = x.f.fb
             /\ x.f.stale = (x.k \in {"metals_prices", "stock_indices"})
        ELSE x.f.st = "rejected" /\ x.f.err \in FailureMessages(x.k, x.f.fail)

(* a quote failed while the entry an overlapping request had just stored   *)
(* was there to fall back on                                               *)
C7_Witness ==
  \E x \in Fetches :
    /\ x.k = "stock_indices"
    /\ failed(x.f)
    /\ x.f.fb # << >>
    /\ x.f.stale

(* the list of a single-source envelope *)
payload(ep, resp) ==
  CASE ep = "/api/news/headlines" -> resp.headlines
    [] ep = "/api/performance" -> resp.data
    [] OTHER -> resp.articles

(* C8: a single-source endpoint whose fetcher fails with no fallback value *)
(* answers success false, the error message and an empty list; otherwise   *)
(* it answers success true and the list the fetcher returned.              *)
C8_SingleSource ==
  \A i \in 1..Len(last) :
    LET rq == last[i] IN
    rq.ep # "/api/prices" =>
      \A k \in DOMAIN rq.f :
        /\ rq.st = "answered"
        /\ Len(rq.resp) = 1
        /\ IF failed(rq.f[k]) /\ rq.f[k].fb = << >>
             THEN /\ rq.resp[1].success = FALSE
                  /\ rq.resp[1].error = rq.f[k].err
                  /\ rq.resp[1].error \in FailureMessages(k, rq.f[k].fail)
                  /\ payload(rq.ep, rq.resp[1]) = << >>
             ELSE /\ rq.resp[1].success = TRUE
                  /\ rq.f[k].val # << >>
                  /\ payload(rq.ep, rq.resp[1]) = rq.f[k].val[1]

(* /api/news/gold answered after the provider reported its own failure *)
C8_Witness ==
  \E i \in 1..Len(last) :
    /\ last[i].ep = "/api/news/gold"
    /\ last[i].st = "answered"
    /\ last[i].f["gold_news"].fail = "provider"
    /\ last[i].f["gold_news"].fb = << >>
    /\ last[i].resp[1].success = FALSE

(* request r as the step leaves it *)
After(r) == IF last' # << >> /\ last'[1].id = r THEN last'[1] ELSE reqs'[r]

(* fetcher k of request r fails in this step *)
failsNow(r, k) ==
  /\ k \in DOMAIN After(r).f
  /\ After(r).f[k].fail # "none"
  /\ \/ r > Len(reqs)
     \/ reqs[r].st = "open" /\ reqs[r].f[k].st = "pending"

(* C9: a missing credential, a failure the provider reports and a network  *)
(* failure are handled alike: the fetcher returns the value the cache      *)
(* holds for its key if there is one and propagates the failure if not;    *)
(* a missing credential is found before any call is issued.                *)
C9_FailuresAlike ==
  [][\A r \in 1..Len(reqs') : \A k \in Keys :
       failsNow(r, k) =>
         LET f == After(r).f[k]
             entry == cacheGet(cache, k, now) IN
         /\ IF entry # << >>
              THEN f.st = "fulfilled" /\ f.val = entry
              ELSE f.st = "rejected" /\ f.err \in FailureMessages(k, f.fail)
         /\ f.fail = "config" => f.calls = 0]_vars

(* a network failure of a news call that found a value to fall back on *)
C9_Witness ==
  \E x \in Fetches :
    /\ x.k \in NewsKeys
    /\ x.f.fail = "network"
    /\ x.f.fb # << >>
    /\ x.f.st = "fulfilled"

(* C10: a request is open only while one of its upstream calls is pending; *)
(* once they have settled it has been answered with exactly one envelope,  *)
(* of status 200 and with a boolean success, whatever failed.              *)
C10_AlwaysAnswered ==
  /\ \A r \in 1..Len(reqs) :
       IF reqs[r].st = "open"
         THEN reqs[r].resp = << >> /\ ~settled(reqs[r])
         ELSE reqs[r].st = "answered" /\ reqs[r].sent = 1
  /\ \A i \in 1..Len(last) :
       /\ last[i].st = "answered"
       /\ Len(last[i].resp) = 1
       /\ last[i].resp[1].status = 200
       /\ last[i].resp[1].success \in BOOLEAN

(* /api/macro-news answered after its fetcher threw *)
C10_Witness ==
  \E i \in 1..Len(last) :
    /\ last[i].ep = "/api/macro-news"
    /\ last[i].f["macro_news"].st = "rejected"
    /\ last[i].st = "answered"
    /\ Len(last[i].resp) = 1

(* C11: GET /api/health answers status 'ok' in every state, with the time  *)
(* and the configured ttl as its only other fields; answering it leaves    *)
(* the cache, the requests in flight and their upstream calls as they      *)
(* were, so the response is a function of the clock alone, whatever the    *)
(* credentials, the cache and the upstreams.                               *)
C11_HealthIndependent ==
  [][(last' # last /\ last' # << >> /\ last'[1].ep = "/api/health") =>
       /\ last'[1].st = "answered"
       /\ last'[1].resp = <<[status |-> "ok", timestamp |-> now, cacheTTL |-> CACHE_TTL]>>
       /\ cache' = cache
       /\ stamp' = stamp
       /\ reqs' = reqs
       /\ now' = now
       /\ env' = env]_vars

(* a health check answered while a call to an upstream is pending, a       *)
(* credential is missing and the package of the quotes is not installed    *)
C11_Witness ==
  /\ last # << >>
  /\ last[1].ep = "/api/health"
  /\ last[1].resp[1].status = "ok"
  /\ ~env.NEWS_API_KEY
  /\ ~env.YAHOO_FINANCE
  /\ \E r \in 1..Len(reqs) : \E k \in DOMAIN reqs[r].f : reqs[r].f[k].st = "pending"

(* the ttl the specification gives each source, in seconds *)
ClaimedTtl(k) ==
  CASE k \in {"metals_prices", "stock_indices"} -> CACHE_TTL
    [] k = "news" -> 43200
    [] k \in {"macro_news", "inflation_news", "gold_news", "bullish_headlines"} -> 600
    [] k = "performance_data" -> 3600

(* C12: every entry of the cache expires the ttl of its source after the   *)
(* instant it was written at (the default ttl for metals_prices and        *)
(* stock_indices, 43200 s for news, 600 s for the four other news keys,    *)
(* 3600 s for performance_data), and a fetcher invocation is a cache hit   *)
(* exactly when it starts within that window of the entry under its key.   *)
C12_SourceTtl ==
  /\ \A k \in Keys :
       cache[k] # << >> =>
         /\ stamp[k] # << >>
         /\ cache[k][1].t = stamp[k][1].at + ClaimedTtl(k)
  /\ \A x \in Fetches :
       x.f.hit <=> (x.f.prev # << >> /\ x.f.issuedAt <= x.f.exp[1])

(* a request for the general news served from the cache 43200 s after the  *)
(* fetch that stored the list                                              *)
C12_Witness ==
  \E x \in Fetches :
    /\ x.k = "news"
    /\ x.f.hit
    /\ stamp["news"] # << >>
    /\ x.f.issuedAt = stamp["news"][1].at + 43200

(* fetcher k of request r returns or throws in this step *)
endsNow(r, k) ==
  /\ k \in DOMAIN After(r).f
  /\ After(r).f[k].st # "pending"
  /\ \/ r > Len(reqs)
     \/ reqs[r].st = "open" /\ reqs[r].f[k].st = "pending"

(* C13: the cache changes only in a step in which a fetcher's upstream     *)
(* call succeeds, and then only under that fetcher's key, to the untagged  *)
(* value it returns; a step in which a fetcher ends in a cache hit, in a   *)
(* fallback on the cached value or in a propagated failure leaves every    *)
(* entry, value and expiry, as it was.                                     *)
C13_WrittenOnSuccessOnly ==
  [][/\ \A k \in Keys :
          cache'[k] # cache[k] =>
            \E r \in 1..Len(reqs') :
              /\ endsNow(r, k)
              /\ After(r).f[k].st = "fulfilled"
              /\ After(r).f[k].fail = "none"
              /\ ~After(r).f[k].hit
              /\ ~After(r).f[k].stale
              /\ cache'[k] # << >>
              /\ <<cache'[k][1].v>> = After(r).f[k].val
              /\ \A j \in Keys \ {k} : cache'[j] = cache[j]
     /\ \A r \in 1..Len(reqs') : \A k \in Keys :
          (endsNow(r, k) /\ (After(r).f[k].hit \/ After(r).f[k].fail # "none"))
            => cache' = cache]_vars

(* a quote failed and the indices fetcher fell back, tagged stale, on an   *)
(* entry written earlier, which is still stored as it was written          *)
C13_Witness ==
  \E x \in Fetches :
    /\ x.k = "stock_indices"
    /\ x.f.stale
    /\ x.f.fb # << >>
    /\ stamp[x.k] # << >>
    /\ stamp[x.k][1].at < now
    /\ cache[x.k] = <<[v |-> x.f.fb[1], t |-> stamp[x.k][1].at + CACHE_TTL]>>

(* /api/prices puts the value of each fetcher that fulfilled into the      *)
(* envelope, whatever became of the other                                  *)
pricesIndependent ==
  \A i \in 1..Len(last) :
    LET rq == last[i] IN
    (rq.ep = "/api/prices" /\ rq.st = "answered") =>
      LET m == rq.f["metals_prices"]
          s == rq.f["stock_indices"] IN
      /\ m.st = "fulfilled" =>
            /\ rq.resp[1].data.gold # << >>
            /\ rq.resp[1].data.gold[1].price = m.val[1].gold.price
            /\ rq.resp[1].data.silver # << >>
            /\ rq.resp[1].data.silver[1].price = m.val[1].silver.price
      /\ s.st = "fulfilled" =>
            /\ rq.resp[1].data.sp500 # << >>
            /\ rq.resp[1].data.sp500[1].price = s.val[1].sp500.price
            /\ rq.resp[1].data.dow # << >>
            /\ rq.resp[1].data.dow[1].price = s.val[1].dow.price

(* /api/performance lists every symbol whose history came with more than   *)
(* one close, whichever other histories failed                             *)
performanceIndependent ==
  \A x \in Fetches :
    (x.k = "performance_data" /\ x.f.got # << >> /\ x.f.got[1].imp) =>
      /\ x.f.st = "fulfilled"
      /\ \A i \in 1..Len(Symbols) :
           LET h == x.f.got[1].hist[i] IN
           (~h.throws /\ Len(h.closes) > 1) =>
             \E j \in 1..Len(x.f.val[1]) : x.f.val[1][j].name = Symbols[i]

(* the indices fetcher returns the quote of each index that was answered,  *)
(* whatever became of the other quote                                      *)
quotesIndependent ==
  \A x \in Fetches :
    (x.k = "stock_indices" /\ x.f.got # << >> /\ x.f.got[1].imp) =>
      LET out == x.f.got[1] IN
      /\ out.sp500 # << >> =>
            /\ x.f.st = "fulfilled"
            /\ x.f.val[1].sp500.timestamp = out.sp500[1].regularMarketTime
      /\ out.dow # << >> =>
            /\ x.f.st = "fulfilled"
            /\ x.f.val[1].dow.timestamp = out.dow[1].regularMarketTime

(* C14: in each of the three fan-outs (/api/prices over its two fetchers,  *)
(* the indices fetcher over its two quotes, /api/performance over its six  *)
(* histories) the result of an operation that succeeded is in the output,  *)
(* whichever other operation of the fan-out failed.                        *)
C14_FanOutsIndependent ==
  pricesIndependent /\ quotesIndependent /\ performanceIndependent

(* C14, amended: /api/prices and /api/performance keep the result of every *)
(* operation that succeeded; the indices fetcher is all or nothing: with   *)
(* both quotes answered it returns both, and when either quote fails it    *)
(* takes its failure path (the cached value if there is one, else the      *)
(* error), the quote that was answered being dropped.                      *)
C14_QuotesAllOrNothing ==
  /\ pricesIndependent
  /\ performanceIndependent
  /\ \A x \in Fetches :
       (x.k = "stock_indices" /\ x.f.got # << >> /\ x.f.got[1].imp) =>
         LET out == x.f.got[1] IN
         IF out.sp500 # << >> /\ out.dow # << >>
           THEN /\ x.f.st = "fulfilled"
                /\ x.f.fail = "none"
                /\ x.f.val = <<buildStocksResult(out.sp500[1], out.dow[1])>>
           ELSE /\ x.f.fail = "network"
                /\ IF x.f.fb # << >>
                     THEN x.f.st = "fulfilled" /\ x.f.val = x.f.fb
                     ELSE x.f.st = "rejected" /\ x.f.val = << >>

(* /api/prices answered with the metals and null indices after the S&P 500 *)
(* quote was answered and the Dow quote failed                             *)
C14_Witness ==
  \E i \in 1..Len(last) :
    /\ last[i].ep = "/api/prices"
    /\ last[i].st = "answered"
    /\ last[i].f["metals_prices"].st = "fulfilled"
    /\ last[i].f["stock_indices"].got # << >>
    /\ last[i].f["stock_indices"].got[1].sp500 # << >>
    /\ last[i].f["stock_indices"].got[1].dow = << >>
    /\ last[i].f["stock_indices"].st = "rejected"
    /\ last[i].resp[1].data.gold # << >>
    /\ last[i].resp[1].data.sp500 = << >>

(* the warnings of an envelope of /api/prices *)
warningsOf(resp) == IF resp.warnings = << >> THEN << >> ELSE resp.warnings[1]

(* C15: a fetcher returns a value tagged stale only in a step in which the *)
(* entry its fallback reads is past its ttl, never for an entry still      *)
(* within its ttl (such as one an overlapping request has just written);   *)
(* and /api/prices emits a 'may be stale' warning only for a source whose  *)
(* fetcher returned such a value.                                          *)
C15_StaleOnlyWhenExpired ==
  [][/\ \A r \in 1..Len(reqs') : \A k \in Keys :
          (endsNow(r, k) /\ After(r).f[k].stale) =>
            /\ cache[k] # << >>
            /\ cache[k][1].t < now
     /\ \A i \in 1..Len(last') :
          (last'[i].ep = "/api/prices" /\ last'[i].st = "answered") =>
            LET w == warningsOf(last'[i].resp[1]) IN
            /\ (\E j \in 1..Len(w) : w[j] = "Metals data may be stale")
                  => last'[i].f["metals_prices"].stale
            /\ (\E j \in 1..Len(w) : w[j] = "Stock indices may be stale")
                  => last'[i].f["stock_indices"].stale]_vars

(* the credential the fetcher of key k needs is configured *)
credential(k, e) ==
  IF k = "metals_prices" THEN e.METALS_API_KEY
  ELSE IF k \in NewsKeys THEN e.NEWS_API_KEY
  ELSE TRUE

(* C16: while a source fails, two requests for it whose invocations both   *)
(* failed never issued their external calls within one ttl window of the   *)
(* key: at most one call per window, however many requests arrive.         *)
C16_OneCallPerWindow ==
  \A a, b \in Visible : \A k \in Keys :
    (/\ a.id < b.id
     /\ k \in DOMAIN a.f /\ k \in DOMAIN b.f
     /\ failed(a.f[k]) /\ a.f[k].calls > 0
     /\ failed(b.f[k]) /\ b.f[k].calls > 0)
      => b.f[k].issuedAt - a.f[k].issuedAt > ClaimedTtl(k)

(* C16, amended: a failure stores nothing, so every invocation that finds  *)
(* no unexpired entry under its key issues its own external calls (one for *)
(* metals and for each news key, given the credential; the two quotes and  *)
(* the six histories once the package is imported), however recently       *)
(* another request's call to the same source failed.                       *)
C16_OneCallPerMiss ==
  \A rq \in Visible : \A k \in DOMAIN rq.f :
    LET f == rq.f[k] IN
    IF startedOnFresh(f)
      THEN f.hit /\ f.calls = 0
      ELSE /\ ~f.hit
           /\ k \in AxiosKeys => f.calls = IF credential(k, env) THEN 1 ELSE 0
           /\ (k = "stock_indices" /\ f.st # "pending")
                 => f.calls = IF env.YAHOO_FINANCE THEN 2 ELSE 0
           /\ (k = "performance_data" /\ f.st # "pending")
                 => f.calls = IF env.YAHOO_FINANCE THEN 6 ELSE 0

(* two requests at the same instant whose calls to the metals provider     *)
(* both failed: two calls within one window                                *)
C16_Witness ==
  \E a, b \in Visible :
    /\ a.id < b.id
    /\ a.ep = "/api/prices" /\ b.ep = "/api/prices"
    /\ a.f["metals_prices"].fail = "provider" /\ a.f["metals_prices"].calls = 1
    /\ b.f["metals_prices"].fail = "provider" /\ b.f["metals_prices"].calls = 1
    /\ b.f["metals_prices"].issuedAt - a.f["metals_prices"].issuedAt <= CACHE_TTL

(* C17: when the upstream call of a request the client has abandoned       *)
(* succeeds, its result is stored under the key with the ttl of the        *)
(* source, as for any other request; and every invocation that starts      *)
(* while an entry is within its ttl, whoever wrote it, is a cache hit that *)
(* returns the entry and issues no call.                                   *)
C17_AbandonedStillCaches ==
  [][/\ \A r \in 1..Len(reqs) : \A k \in Keys :
          (/\ reqs[r].st = "open"
           /\ reqs[r].gone
           /\ endsNow(r, k)
           /\ After(r).f[k].fail = "none") =>
            /\ After(r).gone
            /\ After(r).f[k].st = "fulfilled"
            /\ cache'[k] = <<[v |-> After(r).f[k].val[1], t |-> now + ClaimedTtl(k)]>>
     /\ \A r \in (Len(reqs) + 1)..Len(reqs') : \A k \in Keys :
          (endsNow(r, k) /\ cache[k] # << >> /\ now <= cache[k][1].t) =>
            /\ After(r).f[k].hit
            /\ After(r).f[k].calls = 0
            /\ After(r).f[k].val = <<cache[k][1].v>>]_vars

(* the metals call of a request whose client had gone succeeded, and the   *)
(* next request takes its metals from the entry that call stored           *)
C17_Witness ==
  /\ last # << >>
  /\ last[1].gone
  /\ last[1].ep = "/api/prices"
  /\ succeeded(last[1].f["metals_prices"])
  /\ last[1].f["metals_prices"].calls = 1
  /\ \E r \in 1..Len(reqs) :
       /\ r > last[1].id
       /\ reqs[r].st = "open"
       /\ reqs[r].f["metals_prices"].hit
       /\ reqs[r].f["metals_prices"].val = last[1].f["metals_prices"].val

(* the fetches of news key k whose upstream answered with articles:        *)
(* raw (response.data.articles) and out (the list returned and stored)     *)
Processed(k) ==
  {[raw |-> x.f.got[1].body[1], out |-> x.f.val[1]] :
     x \in {y \in Fetches : y.k = k /\ y.f.got # << >> /\ y.f.got[1].kind = "ok"
                                     /\ y.f.fail = "none"}}

(* two titles agree: the same characters remain of their first 50, in      *)
(* lower case, once everything but letters and digits is removed           *)
normalized(title) ==
  stripNonAlnum(slice([i \in 1..Len(title) |-> toLowerCase(title[i])], 50))

Agreeing ==
  {pair \in (1..Len(Titles)) \X (1..Len(Titles)) :
     normalized(Titles[pair[1]]) = normalized(Titles[pair[2]])}

agree(a, b) == a.title # 0 /\ b.title # 0 /\ <<a.title, b.title>> \in Agreeing

(* the place in the response of the article at place a of the output *)
placeOf(p, a) == p.out[a].url

DedupKeys == {"macro_news", "inflation_news", "gold_news", "bullish_headlines"}

redacted(n) == n # 0 /\ Titles[n] = <<"[", "R", "e", "m", "o", "v", "e", "d", "]">>

(* C19: the list a news fetcher returns, whichever of the five it is and   *)
(* whatever the provider answered, holds no article with a null title and  *)
(* none with the title '[Removed]'.                                        *)
C19_NoNullOrRedactedTitle ==
  \A k \in NewsKeys : \A p \in Processed(k) :
    \A a \in 1..Len(p.out) : p.out[a].title # 0 /\ ~redacted(p.out[a].title)

(* two articles of an output have the same normalized-title key *)
sameKey(a, b) == (a.title = 0 /\ b.title = 0) \/ agree(a, b)

(* C20: the list returned by each of fetchNews, fetchMacroNews,            *)
(* fetchInflationNews, fetchGoldNews and fetchBullishHeadlines never holds *)
(* two articles with the same normalized-title key.                        *)
C20_AllFetchersDeduplicate ==
  \A k \in NewsKeys : \A p \in Processed(k) :
    \A a, b \in 1..Len(p.out) : a < b => ~sameKey(p.out[a], p.out[b])

(* the cap of each capped endpoint's list *)
ClaimedCap(k) == IF k = "bullish_headlines" THEN 25 ELSE 10

(* the title passes the filter of fetcher k by itself *)
titleKept(k, a) ==
  k = "bullish_headlines" =>
    (a.title # 0 /\ Titles[a.title] # << >> /\ a.title \notin RemovedTitles)

(* the places of the upstream articles that survive the filter of k: the   *)
(* title is kept and no earlier article with a kept title has the same key *)
Survivors(k, raw) ==
  {i \in 1..Len(raw) :
     /\ titleKept(k, raw[i])
     /\ ~\E j \in 1..(i - 1) : titleKept(k, raw[j]) /\ sameKey(raw[j], raw[i])}

(* C21: the list of macro_news, inflation_news and gold_news holds at most *)
(* 10 articles and that of bullish_headlines at most 25, and it is exactly *)
(* the first 10 (25) of the upstream articles that survive the filter, in  *)
(* order: an article dropped by the filter takes no place of the cap.      *)
C21_CapAfterDedup ==
  \A k \in DedupKeys : \A p \in Processed(k) :
    LET S == Survivors(k, p.raw) IN
    /\ Len(p.out) = IF Cardinality(S) < ClaimedCap(k) THEN Cardinality(S) ELSE ClaimedCap(k)
    /\ \A a \in 1..Len(p.out) :
         /\ placeOf(p, a) \in S
         /\ Cardinality({i \in S : i < placeOf(p, a)}) = a - 1

(* twelve upstream articles with a duplicate among the first ten: the      *)
(* tenth article of the list is the eleventh upstream                      *)
C21_Witness ==
  \E p \in Processed("macro_news") :
    /\ Len(p.raw) = 12
    /\ sameKey(p.raw[4], p.raw[5])
    /\ Len(p.out) = 10
    /\ placeOf(p, 10) = 11

(* the /api/performance fetches whose import resolved: hist (the six       *)
(* histories) and out (the list returned and stored)                       *)
Performed ==
  {[hist |-> x.f.got[1].hist, out |-> x.f.val[1]] :
     x \in {y \in Fetches : y.k = "performance_data" /\ y.f.got # << >>
                                     /\ y.f.got[1].imp /\ y.f.st = "fulfilled"}}

(* r is num / den rounded to the nearest integer, a half upwards (den > 0) *)
isRounded(r, num, den) == (2 * r - 1) * den <= 2 * num /\ 2 * num < (2 * r + 1) * den

(* the history has at least two closes *)
usable(h) == ~h.throws /\ Len(h.closes) >= 2

(* C22: for each symbol whose history has at least two closes the list     *)
(* holds a record of the symbol whose return is (last - first) / first *   *)
(* 100 rounded to the nearest integer, from the first and the last close;  *)
(* a first close of 100 and a last close of 250 give 150.                  *)
C22_ReturnRounded ==
  \A p \in Performed : \A i \in 1..Len(Symbols) :
    usable(p.hist[i]) =>
      LET first == p.hist[i].closes[1]
          final == p.hist[i].closes[Len(p.hist[i].closes)] IN
      \E j \in 1..Len(p.out) :
        /\ p.out[j].name = Symbols[i]
        /\ isRounded(p.out[j].return, (final - first) * 100, first)
        /\ (first = 100 /\ final = 250) => p.out[j].return = 150

(* Gold went from 200 to 197 with a close of 250 between: -1.5 per cent,   *)
(* reported as -1; and the S&P 500 from 100 to 250, reported as 150        *)
C22_Witness ==
  \E p \in Performed :
    /\ p.hist[1].closes = <<200, 250, 197>>
    /\ p.hist[3].closes = <<100, 250>>
    /\ \E j \in 1..Len(p.out) : p.out[j] = [name |-> "Gold", return |-> -1]
    /\ \E j \in 1..Len(p.out) : p.out[j] = [name |-> "S&P 500", return |-> 150]

(* the records of a list other than that of the symbol with this name *)
without(list, name) == SelectSeq(list, LAMBDA rec : rec.name # name)

(* C23: on /api/performance a symbol whose history was rejected or has     *)
(* fewer than two closes has no record in the list; the rest of the list   *)
(* is what it would be, record for record, had that symbol been answered   *)
(* with a usable history; and the envelope is success true with the list   *)
(* as its only other content: no warning, no error.                        *)
C23_SilentlyDropped ==
  \A i \in 1..Len(last) :
    LET rq == last[i] IN
    (/\ rq.ep = "/api/performance"
     /\ rq.f["performance_data"].got # << >>
     /\ rq.f["performance_data"].got[1].imp) =>
      LET hist == rq.f["performance_data"].got[1].hist IN
      /\ rq.st = "answered"
      /\ DOMAIN rq.resp[1] = {"status", "success", "data"}
      /\ rq.resp[1].success = TRUE
      /\ \A n \in 1..Len(Symbols) :
           ~usable(hist[n]) =>
             /\ ~\E j \in 1..Len(rq.resp[1].data) : rq.resp[1].data[j].name = Symbols[n]
             /\ \A h \in {g \in AnyHistory : usable(g)} :
                  without(assetData([hist EXCEPT ![n] = h]), Symbols[n]) = rq.resp[1].data

(* /api/performance answered with seven records after the history of Gold *)
(* was rejected and the five others were answered                          *)
C23_Witness ==
  \E i \in 1..Len(last) :
    /\ last[i].ep = "/api/performance"
    /\ last[i].st = "answered"
    /\ last[i].f["performance_data"].got # << >>
    /\ last[i].f["performance_data"].got[1].imp
    /\ last[i].f["performance_data"].got[1].hist[1].throws
    /\ \A n \in 2..Len(Symbols) : usable(last[i].f["performance_data"].got[1].hist[n])
    /\ last[i].resp[1].success = TRUE
    /\ Len(last[i].resp[1].data) = 7

(* the lists /api/performance returned with success true, computed or cached *)
PerformanceLists ==
  {last[i].resp[1].data : i \in {j \in 1..Len(last) :
     /\ last[j].ep = "/api/performance"
     /\ last[j].st = "answered"
     /\ last[j].resp[1].success}}

occurrences(list, rec) == Cardinality({j \in 1..Len(list) : list[j] = rec})

(* C24: every list /api/performance returns with success true holds the    *)
(* record CDs/Savings 49 exactly once and the record Cash (USD) -44        *)
(* exactly once, at most one record for each of the six symbols, no other  *)
(* record, and is ordered by non-increasing return.                        *)
C24_FixedRecordsAndOrder ==
  \A list \in PerformanceLists :
    /\ occurrences(list, [name |-> "CDs/Savings", return |-> 49]) = 1
    /\ occurrences(list, [name |-> "Cash (USD)", return |-> -44]) = 1
    /\ Cardinality({j \in 1..Len(list) : list[j].name = "CDs/Savings"}) = 1
    /\ Cardinality({j \in 1..Len(list) : list[j].name = "Cash (USD)"}) = 1
    /\ \A n \in 1..Len(Symbols) :
         Cardinality({j \in 1..Len(list) : list[j].name = Symbols[n]}) <= 1
    /\ \A j \in 1..Len(list) :
         list[j].name \in {Symbols[n] : n \in 1..Len(Symbols)} \cup {"CDs/Savings", "Cash (USD)"}
    /\ \A j \in 1..(Len(list) - 1) : list[j].return >= list[j + 1].return

(* a list of eight records in which Gold, at -1, stands between the two    *)
(* fixed records                                                           *)
C24_Witness ==
  \E list \in PerformanceLists :
    /\ Len(list) = 8
    /\ list[6] = [name |-> "CDs/Savings", return |-> 49]
    /\ list[7] = [name |-> "Gold", return |-> -1]
    /\ list[8] = [name |-> "Cash (USD)", return |-> -44]

(* the envelopes /api/prices answered with *)
PricesEnvelopes ==
  {last[i].resp[1] : i \in {j \in 1..Len(last) :
     last[j].ep = "/api/prices" /\ last[j].st = "answered"}}

(* x = price * a / b, for rationals, by cross-multiplication; a null price *)
(* multiplies as 0                                                         *)
isTimes(x, price, a, b) ==
  IF price = << >> THEN x.num = 0
  ELSE x.num * price[1].den * b = price[1].num * a * x.den

isRat(x, n, d) == x.num * d = n * x.den

(* C25: in every /api/prices response with metals data, gold has           *)
(* previousClose = price * 0.998, change = price * 0.002 and changePercent *)
(* 0.2, and silver has previousClose = price * 0.995, change = price *     *)
(* 0.005 and changePercent 0.5, whatever was stored before; for a gold     *)
(* price of 2000 that is 1996, 4 and 0.2.                                  *)
C25_SyntheticChange ==
  \A e \in PricesEnvelopes :
    /\ e.data.gold # << >> =>
         LET g == e.data.gold[1] IN
         /\ isTimes(g.previousClose, g.price, 998, 1000)
         /\ isTimes(g.change, g.price, 2, 1000)
         /\ isRat(g.changePercent, 2, 10)
         /\ (g.price # << >> /\ isRat(g.price[1], 2000, 1)) =>
               isRat(g.previousClose, 1996, 1) /\ isRat(g.change, 4, 1)
    /\ e.data.silver # << >> =>
         LET g == e.data.silver[1] IN
         /\ isTimes(g.previousClose, g.price, 995, 1000)
         /\ isTimes(g.change, g.price, 5, 1000)
         /\ isRat(g.changePercent, 5, 10)

(* a response with gold at 1900, previous close 1896.2, after the entry    *)
(* with gold at 2000 had expired                                           *)
C25_Witness ==
  \E i \in 1..Len(last) :
    /\ last[i].ep = "/api/prices"
    /\ last[i].st = "answered"
    /\ last[i].f["metals_prices"].prev # << >>
    /\ last[i].f["metals_prices"].prev[1].gold.price = <<rat(2000)>>
    /\ last[i].resp[1].data.gold # << >>
    /\ last[i].resp[1].data.gold[1].price = <<rat(1900)>>
    /\ isRat(last[i].resp[1].data.gold[1].previousClose, 18962, 10)
    /\ isRat(last[i].resp[1].data.silver[1].previousClose, 2388, 100)

MetalsWarnings == {"Metals data may be stale", "Unable to fetch metals prices"}
IndicesWarnings == {"Stock indices may be stale", "Unable to fetch stock indices"}

(* the fetcher returned a value that does not carry stale: true *)
fresh(f) == f.st = "fulfilled" /\ ~f.stale

ProviderFailures(k, r) == {o \in Outcomes(k, r, env) : o.kind = "provider"}

(* the message the provider gave, else the fixed text of the fetcher *)
ProviderMessage(k, out) ==
  IF out.msg # << >> THEN out.msg[1]
  ELSE IF k = "metals_prices" THEN "Metals API request failed"
  ELSE "NewsAPI request failed"

(* C27: in a step in which the metals or the news provider answers with    *)
(* its own failure status, the cache is left as it was and the fetcher's   *)
(* failure is of the provider's kind; where its catch block finds nothing  *)
(* to fall back on, the fetcher rejects with the provider's message, or    *)
(* with the fixed text when the provider gave none, and a news endpoint    *)
(* answers success false with that message as its error.                   *)
C27_ProviderFailure ==
  [][\A r \in 1..Len(reqs) :
       \A k \in DOMAIN reqs[r].f \cap ({"metals_prices"} \cup NewsKeys) :
         \A out \in ProviderFailures(k, r) :
           Settle(r, k, out) =>
             LET f == After(r).f[k] IN
             /\ cache' = cache
             /\ f.fail = "provider"
             /\ IF f.fb = << >>
                  THEN /\ f.st = "rejected"
                       /\ f.err = ProviderMessage(k, out)
                       /\ k \in NewsKeys =>
                            /\ After(r).st = "answered"
                            /\ After(r).resp[1].success = FALSE
                            /\ After(r).resp[1].error = ProviderMessage(k, out)
                  ELSE f.st = "fulfilled" /\ f.val = f.fb]_vars

(* /api/news answered with the provider's own message after the provider   *)
(* reported a failure and nothing was cached                               *)
C27_Witness ==
  \E i \in 1..Len(last) :
    /\ last[i].ep = "/api/news"
    /\ last[i].st = "answered"
    /\ last[i].f["news"].fail = "provider"
    /\ last[i].f["news"].fb = << >>
    /\ cache["news"] = << >>
    /\ last[i].resp[1].success = FALSE
    /\ last[i].resp[1].error = "quota exceeded"

(* call c of fetchData, a refresh, ends in this step in its catch block *)
refreshFails(c) ==
  /\ hook.calls[c].st = "pending"
  /\ ~hook.calls[c].initial
  /\ hook'.calls[c].st = "done"
  /\ hook'.error # << >>

(* C28: once useMarketData has loaded data, a refresh that fails (network  *)
(* error, HTTP status not OK, success false) leaves data, warnings and     *)
(* lastUpdated, and the tiles, as they were; it only sets error and clears *)
(* loading.                                                                *)
C28_FailedRefreshKeepsData ==
  [][\A c \in 1..Len(hook.calls) :
       (refreshFails(c) /\ hook.data # << >>) =>
         /\ hook'.data = hook.data
         /\ hook'.warnings = hook.warnings
         /\ hook'.lastUpdated = hook.lastUpdated
         /\ hook'.updatedTiles = hook.updatedTiles
         /\ hook'.prevPrices = hook.prevPrices
         /\ hook'.error \in {<<"HTTP error: 500">>, <<"API returned unsuccessful response">>,
                              <<"Failed to fetch">>}
         /\ hook'.loading = FALSE]_vars

count(w, text) == Cardinality({a \in 1..Len(w) : w[a] = text})

(* the three cases of one source in an envelope: its two fields a and b,   *)
(* its two warnings                                                        *)
sourceFresh(w, a, b, staleText, failText) ==
  count(w, staleText) = 0 /\ count(w, failText) = 0 /\ a # << >> /\ b # << >>

sourceStale(w, a, b, staleText, failText) ==
  count(w, staleText) = 1 /\ count(w, failText) = 0 /\ a # << >> /\ b # << >>

sourceFailed(w, a, b, staleText, failText) ==
  count(w, staleText) = 0 /\ count(w, failText) = 1 /\ a = << >> /\ b = << >>

oneCase(w, a, b, staleText, failText) ==
  Cardinality({c \in {"fresh", "stale", "failed"} :
     \/ c = "fresh" /\ sourceFresh(w, a, b, staleText, failText)
     \/ c = "stale" /\ sourceStale(w, a, b, staleText, failText)
     \/ c = "failed" /\ sourceFailed(w, a, b, staleText, failText)}) = 1

(* C29: in every /api/prices response each source is in exactly one of     *)
(* three cases: fresh (no warning of the source, its fields populated),    *)
(* stale (the 'may be stale' warning alone, fields populated) or failed    *)
(* (the 'Unable to fetch' warning alone, fields null); the case is the     *)
(* one its fetcher ended in, and warnings has at most two entries.         *)
C29_ThreeCasesPerSource ==
  \A i \in 1..Len(last) :
    LET rq == last[i] IN
    (rq.ep = "/api/prices" /\ rq.st = "answered") =>
      LET e == rq.resp[1]
          w == warningsOf(e)
          m == rq.f["metals_prices"]
          x == rq.f["stock_indices"] IN
      /\ oneCase(w, e.data.gold, e.data.silver,
                 "Metals data may be stale", "Unable to fetch metals prices")
      /\ oneCase(w, e.data.sp500, e.data.dow,
                 "Stock indices may be stale", "Unable to fetch stock indices")
      /\ sourceStale(w, e.data.gold, e.data.silver,
                     "Metals data may be stale", "Unable to fetch metals prices")
           <=> (m.st = "fulfilled" /\ m.stale)
      /\ sourceFailed(w, e.data.gold, e.data.silver,
                      "Metals data may be stale", "Unable to fetch metals prices")
           <=> m.st = "rejected"
      /\ sourceStale(w, e.data.sp500, e.data.dow,
                     "Stock indices may be stale", "Unable to fetch stock indices")
           <=> (x.st = "fulfilled" /\ x.stale)
      /\ sourceFailed(w, e.data.sp500, e.data.dow,
                      "Stock indices may be stale", "Unable to fetch stock indices")
           <=> x.st = "rejected"
      /\ Len(w) <= 2

(* a response with the indices stale and populated and the metals failed   *)
(* and null                                                                *)
C29_Witness ==
  \E i \in 1..Len(last) :
    /\ last[i].ep = "/api/prices"
    /\ last[i].st = "answered"
    /\ last[i].f["stock_indices"].stale
    /\ last[i].f["metals_prices"].st = "rejected"
    /\ last[i].resp[1].data.sp500 # << >>
    /\ last[i].resp[1].data.gold = << >>
    /\ warningsOf(last[i].resp[1]) =
         <<"Unable to fetch metals prices", "Stock indices may be stale">>

(* of the two quotes of the fetcher exactly one was rejected *)
oneQuoteFailed(f) ==
  /\ f.got # << >>
  /\ f.got[1].imp
  /\ (f.got[1].sp500 = << >>) # (f.got[1].dow = << >>)

(* C30: in every /api/prices response gold and silver are both present or  *)
(* both null, and sp500 and dow are both present or both null; when one of *)
(* the two quotes is rejected and the catch block finds nothing to fall    *)
(* back on, sp500 and dow are both null.                                   *)
C30_SharedPresence ==
  \A i \in 1..Len(last) :
    LET rq == last[i] IN
    (rq.ep = "/api/prices" /\ rq.st = "answered") =>
      LET d == rq.resp[1].data
          x == rq.f["stock_indices"] IN
      /\ (d.gold = << >>) = (d.silver = << >>)
      /\ (d.sp500 = << >>) = (d.dow = << >>)
      /\ (oneQuoteFailed(x) /\ x.fb = << >>) => (d.sp500 = << >> /\ d.dow = << >>)

(* the quote of the S&P 500 came and that of the Dow was rejected, with    *)
(* nothing cached: both are null, next to a gold with a price and a silver *)
(* present without one                                                     *)
C30_Witness ==
  \E i \in 1..Len(last) :
    /\ last[i].ep = "/api/prices"
    /\ last[i].st = "answered"
    /\ oneQuoteFailed(last[i].f["stock_indices"])
    /\ last[i].f["stock_indices"].got[1].sp500 # << >>
    /\ last[i].f["stock_indices"].fb = << >>
    /\ last[i].resp[1].data.sp500 = << >>
    /\ last[i].resp[1].data.dow = << >>
    /\ last[i].resp[1].data.gold # << >>
    /\ last[i].resp[1].data.gold[1].price = <<rat(2000)>>
    /\ last[i].resp[1].data.silver # << >>
    /\ last[i].resp[1].data.silver[1].price = << >>

(* another request is waiting for its own call for key k *)
callPending(k) ==
  \E r \in 1..Len(reqs) :
    reqs[r].st = "open" /\ k \in DOMAIN reqs[r].f /\ reqs[r].f[k].st = "pending"

(* the call of fetcher k of request r succeeds in this step *)
callSucceeds(r, k) ==
  /\ r <= Len(reqs)
  /\ endsNow(r, k)
  /\ After(r).f[k].fail = "none"
  /\ ~After(r).f[k].hit

(* C31: requests that overlap and miss the same key are not coalesced: a   *)
(* request that misses while another waits for its call for that key       *)
(* issues a call of its own; every call that succeeds writes its value     *)
(* over whatever the key holds; and the key changes in no other step, so   *)
(* that it ends holding the value of the call that completed last.         *)
C31_NotCoalesced ==
  [][/\ \A r \in (Len(reqs) + 1)..Len(reqs') : \A k \in AxiosKeys :
          (/\ k \in DOMAIN After(r).f
           /\ callPending(k)
           /\ cacheGet(cache, k, now) = << >>
           /\ credential(k, env)) =>
            /\ After(r).f[k].st = "pending"
            /\ After(r).f[k].calls = 1
     /\ \A r \in 1..Len(reqs) : \A k \in Keys :
          callSucceeds(r, k) =>
            cache'[k] = <<[v |-> After(r).f[k].val[1], t |-> now + ClaimedTtl(k)]>>
     /\ \A k \in Keys :
          cache'[k] # cache[k] => \E r \in 1..Len(reqs) : callSucceeds(r, k)]_vars

(* two overlapping requests to /api/prices each called the metals provider; *)
(* the call of the second was answered first, and the key holds the value  *)
(* of the first, answered last                                             *)
C31_Witness ==
  \E a, b \in Visible :
    /\ a.ep = "/api/prices" /\ b.ep = "/api/prices"
    /\ a.id < b.id
    /\ a.st = "open"
    /\ a.f["metals_prices"].calls = 1 /\ b.f["metals_prices"].calls = 1
    /\ a.f["metals_prices"].st = "fulfilled" /\ a.f["metals_prices"].fail = "none"
    /\ b.f["metals_prices"].st = "fulfilled" /\ b.f["metals_prices"].fail = "none"
    /\ a.f["metals_prices"].val # b.f["metals_prices"].val
    /\ stored(cache, "metals_prices") = a.f["metals_prices"].val

(* a list of /api/performance from which symbols were dropped *)
reduced(list) == Len(list) < Len(Symbols) + 2

(* C32: when /api/performance computes a list from which symbols were      *)
(* dropped, down to the two fixed records alone, it stores that list for   *)
(* 3600 s and answers success true with it; a request arriving while the   *)
(* entry is within those 3600 s is answered success true with the same     *)
(* list, issues no call and leaves the cache as it is.                     *)
C32_ReducedListCached ==
  [][/\ \A r \in 1..Len(reqs) :
          LET k == "performance_data" IN
          (/\ callSucceeds(r, k)
           /\ \E n \in 1..Len(Symbols) : ~usable(After(r).f[k].got[1].hist[n])) =>
            LET list == After(r).f[k].val[1] IN
            /\ reduced(list)
            /\ cache'[k] = <<[v |-> list, t |-> now + 3600]>>
            /\ After(r).st = "answered"
            /\ After(r).resp[1].success = TRUE
            /\ After(r).resp[1].data = list
     /\ \A r \in (Len(reqs) + 1)..Len(reqs') :
          LET k == "performance_data" IN
          (/\ After(r).ep = "/api/performance"
           /\ cache[k] # << >>
           /\ reduced(cache[k][1].v)
           /\ now <= cache[k][1].t) =>
            /\ After(r).f[k].hit
            /\ After(r).f[k].calls = 0
            /\ After(r).st = "answered"
            /\ After(r).resp[1].success = TRUE
            /\ After(r).resp[1].data = cache[k][1].v
            /\ cache' = cache]_vars

(* a request answered from the cache, at the last instant of the 3600 s,   *)
(* with the two fixed records alone, stored when all six symbols failed    *)
C32_Witness ==
  \E i \in 1..Len(last) :
    /\ last[i].ep = "/api/performance"
    /\ last[i].st = "answered"
    /\ last[i].f["performance_data"].hit
    /\ last[i].f["performance_data"].calls = 0
    /\ stamp["performance_data"] # << >>
    /\ now = stamp["performance_data"][1].at + 3600
    /\ last[i].resp[1].success = TRUE
    /\ Len(last[i].resp[1].data) = 2
    /\ last[i].resp[1].data = stamp["performance_data"][1].v

C34_IndexInRange ==
  (~widget.loading /\ widget.error = << >> /\ Len(widget.articles) > 0) =>
    (0 <= widget.currentIndex /\ widget.currentIndex < Len(widget.articles))

(* C35: once NewsWidget shows an article of a loaded list, a refresh that  *)
(* fails (the envelope success false with an empty list, or a network      *)
(* error) does not turn it to the empty state: the list is kept and an     *)
(* article of it is still shown.                                           *)
C35_FailedRefreshKeepsArticles ==
  [][\A res \in {x \in WidgetResponses : ~x.success} :
       (view(widget) = "article" /\ WidgetRespond(res)) =>
         /\ widget'.articles = widget.articles
         /\ view(widget') = "article"]_vars

====
